---------------------------- MODULE Spec2Model ----------------------------
(***************************************************************************)
(* A model of ODPI-C's variable buffer manager (src/src/dpiVar.c): one     *)
(* dpiVar, the heap blocks it owns, the reference-counted handles it       *)
(* shares with its caller, and the native descriptor arrays it asks OCI    *)
(* for.  Every C function is an operator from a program state to a program *)
(* state; a failing call (malloc, OCI allocation) is injected by a         *)
(* countdown carried in the state.                                         *)
(***************************************************************************)
EXTENDS Integers, Sequences, FiniteSets, TLC

VARIABLES var, heap, nextId, handles, oci, env, exec, last, ops

vars == <<var, heap, nextId, handles, oci, env, exec, last, ops>>

-----------------------------------------------------------------------------
(* Bounds of the model *)

\* largest array capacity passed to dpiVar__allocate
MaxCap == 2
\* largest row count OCI reports to the returning-bind callback
MaxRows == 4
\* the k-th fallible call of an operation can be made to fail, k <= MaxFail
MaxFail == 12
\* number of operations performed on one variable in one behaviour
MaxOps == 2
\* number of pieces the native layer delivers in one fetch
MaxPieces == 3

-----------------------------------------------------------------------------
(* Program constants *)

\* TLC's integers are 32 bits wide, so the machine is scaled down: a uint32_t
\* is 15 bits wide, an int 15 bits, and a product of two uint32_t values
\* (an unsigned long long) stays below 2^30.  The thresholds keep their order:
\* DPI_MAX_BASIC_BUFFER_SIZE < INT_MAX < UINT32_MOD.
UINT32_MOD == 32768
\* limit of the product capacity * element size
INT_MAX == 16383
\* threshold above which a variable becomes dynamic
DPI_MAX_BASIC_BUFFER_SIZE == 1023
\* characters of the text form of a number
DPI_NUMBER_AS_TEXT_CHARS == 172
\* sizeof(void*)
PTR_SIZE == 8
\* the quantum of a chunk of dynamic bytes (scaled down like the integers)
DPI_DYNAMIC_BYTES_CHUNK_SIZE == 4
\* the number of chunk entries dpiVar__allocateChunks adds
CHUNKS_INCREMENT == 8

OCI_IND_NULL == -1
OCI_IND_NOTNULL == 0

\* contents of a native-facing array entry that is not a handle
NULLH == 0
UNINIT == -1
DESC == -2
DESC_FREED == -3

-----------------------------------------------------------------------------
(* Type catalog: dpiOracleType__getFromNum *)

OracleType(n, nat, size, chr, arr, pre, cs) ==
    [oracleTypeNum |-> n, defaultNativeTypeNum |-> nat, sizeInBytes |-> size,
     isCharacterData |-> chr, canBeInArray |-> arr, requiresPreFetch |-> pre,
     charsetForm |-> cs]

dpiAllOracleTypes ==
    { OracleType("VARCHAR", "BYTES", 0, TRUE, TRUE, FALSE, "IMPLICIT"),
      OracleType("NVARCHAR", "BYTES", 0, TRUE, TRUE, FALSE, "NCHAR"),
      OracleType("CHAR", "BYTES", 0, TRUE, TRUE, FALSE, "IMPLICIT"),
      OracleType("NCHAR", "BYTES", 0, TRUE, TRUE, FALSE, "NCHAR"),
      OracleType("ROWID", "ROWID", PTR_SIZE, TRUE, FALSE, TRUE, "NONE"),
      OracleType("RAW", "BYTES", 0, FALSE, TRUE, FALSE, "NONE"),
      OracleType("NATIVE_FLOAT", "FLOAT", 4, FALSE, TRUE, FALSE, "NONE"),
      OracleType("NATIVE_DOUBLE", "DOUBLE", 8, FALSE, TRUE, FALSE, "NONE"),
      OracleType("NATIVE_INT", "INT64", 8, FALSE, TRUE, FALSE, "NONE"),
      OracleType("NUMBER", "DOUBLE", 22, FALSE, TRUE, FALSE, "NONE"),
      OracleType("DATE", "TIMESTAMP", 7, FALSE, TRUE, FALSE, "NONE"),
      OracleType("TIMESTAMP", "TIMESTAMP", PTR_SIZE, FALSE, TRUE, FALSE, "NONE"),
      OracleType("TIMESTAMP_TZ", "TIMESTAMP", PTR_SIZE, FALSE, TRUE, FALSE, "NONE"),
      OracleType("TIMESTAMP_LTZ", "TIMESTAMP", PTR_SIZE, FALSE, TRUE, FALSE, "NONE"),
      OracleType("INTERVAL_DS", "INTERVAL_DS", PTR_SIZE, FALSE, TRUE, FALSE, "NONE"),
      OracleType("INTERVAL_YM", "INTERVAL_YM", PTR_SIZE, FALSE, TRUE, FALSE, "NONE"),
      OracleType("CLOB", "LOB", PTR_SIZE, TRUE, FALSE, TRUE, "IMPLICIT"),
      OracleType("NCLOB", "LOB", PTR_SIZE, TRUE, FALSE, TRUE, "NCHAR"),
      OracleType("BLOB", "LOB", PTR_SIZE, FALSE, FALSE, TRUE, "NONE"),
      OracleType("BFILE", "LOB", PTR_SIZE, FALSE, FALSE, TRUE, "NONE"),
      OracleType("STMT", "STMT", PTR_SIZE, FALSE, FALSE, TRUE, "NONE"),
      OracleType("BOOLEAN", "BOOLEAN", 4, FALSE, FALSE, FALSE, "NONE"),
      OracleType("OBJECT", "OBJECT", PTR_SIZE, FALSE, FALSE, TRUE, "NONE"),
      OracleType("LONG_VARCHAR", "BYTES", DPI_MAX_BASIC_BUFFER_SIZE + 1,
                 TRUE, FALSE, FALSE, "IMPLICIT"),
      OracleType("LONG_NVARCHAR", "BYTES", DPI_MAX_BASIC_BUFFER_SIZE + 1,
                 TRUE, FALSE, FALSE, "NCHAR"),
      OracleType("LONG_RAW", "BYTES", DPI_MAX_BASIC_BUFFER_SIZE + 1,
                 FALSE, FALSE, FALSE, "NONE") }

OracleTypeNums == { t.oracleTypeNum : t \in dpiAllOracleTypes }

NativeTypeNums ==
    { "INT64", "UINT64", "FLOAT", "DOUBLE", "BYTES", "TIMESTAMP",
      "INTERVAL_DS", "INTERVAL_YM", "LOB", "OBJECT", "STMT", "BOOLEAN",
      "ROWID" }

\* the descriptor of a type number the catalog knows
dpiOracleType__getFromNum(n) ==
    CHOOSE t \in dpiAllOracleTypes : t.oracleTypeNum = n

TimestampTypes == { "TIMESTAMP", "TIMESTAMP_TZ", "TIMESTAMP_LTZ" }
IntervalTypes == { "INTERVAL_DS", "INTERVAL_YM" }
LobTypes == { "CLOB", "NCLOB", "BLOB", "BFILE" }

-----------------------------------------------------------------------------
(* Program state *)

NullArr == [id |-> 0, size |-> 0, v |-> << >>]
NullPtr == [blk |-> 0, off |-> 0]

\* a dpiVar no allocation has produced, or that was freed
NoVar ==
    [alive |-> FALSE, blk |-> 0, type |-> "NONE", nativeTypeNum |-> "NONE",
     maxArraySize |-> 0, actualArraySize |-> 0, sizeInBytes |-> 0,
     isDynamic |-> FALSE, requiresPreFetch |-> FALSE, isArray |-> FALSE,
     conn |-> 0, objectType |-> 0,
     data |-> NullArr, indicator |-> NullArr, actualLength |-> NullArr,
     returnCode |-> NullArr, tempBuffer |-> NullArr,
     externalData |-> NullArr, references |-> NullArr,
     dynamicBytes |-> NullArr, objectIndicator |-> NullArr]

\* handle numbers of the connection and of the caller's object type
ConnH == 1
ObjTypeH == 2

Handle(k, rc, ext) ==
    [kind |-> k, refCount |-> rc, ext |-> ext, nfree |-> 0, content |-> << >>,
     ind |-> OCI_IND_NOTNULL]

\* the program state the C functions work on
State ==
    [var |-> var, heap |-> heap, nextId |-> nextId, handles |-> handles,
     oci |-> oci, env |-> env, fail |-> 0, err |-> "", out |-> << >>]

Ok(s) == s.err = ""

Fail(s, e) == [s EXCEPT !.err = e]

\* one fallible call: the injected failure hits when the countdown is at 1
Hit(s) == s.fail = 1

Tick(s) == [s EXCEPT !.fail = IF @ > 0 THEN @ - 1 ELSE 0]

\* malloc/calloc succeeded: the block s.nextId is now live
Malloced(s) ==
    [Tick(s) EXCEPT !.heap = @ \cup {s.nextId}, !.nextId = @ + 1]

\* free(p): free(NULL) does nothing; a block not live is a bad free
FreeBlk(s, id) ==
    IF id = 0 THEN s
    ELSE IF id \in s.heap THEN [s EXCEPT !.heap = @ \ {id}]
    ELSE [s EXCEPT !.oci.badFree = @ + 1]


\* a fallible call failed: the countdown is used up and the error is set
Failing(s, e) == Fail(Tick(s), e)

\* run the next step only when nothing failed so far (the C early return)
Then(s, Op(_)) == IF Ok(s) THEN Op(s) ELSE s

\* dpiGen__setRefCount: at count 0 the handle's free procedure releases its
\* native resource and the reference it holds on the connection
RECURSIVE dpiGen__setRefCount(_, _, _)
dpiGen__setRefCount(s, h, inc) ==
    LET hd == s.handles[h]
        n  == hd.refCount + inc
    IN  IF hd.refCount = 0
        THEN [s EXCEPT !.oci.badRef = @ + 1]
        ELSE IF n > 0
        THEN [s EXCEPT !.handles[h].refCount = n]
        ELSE LET s1 == [s EXCEPT !.handles[h].refCount = 0,
                                 !.handles[h].nfree = @ + 1]
             IN  IF hd.kind \in {"LOB", "STMT", "ROWID", "OBJECT"}
                 THEN dpiGen__setRefCount(s1, ConnH, -1)
                 ELSE s1

\* dpiGen__checkHandle: a live handle of the expected kind
dpiGen__checkHandle(s, h, kind) ==
    /\ h \in 1..Len(s.handles)
    /\ s.handles[h].refCount > 0
    /\ s.handles[h].kind = kind

\* dpiStmt__allocate, dpiLob__allocate, dpiRowid__allocate, dpiObject__allocate:
\* a new handle with one reference, which holds a reference on the connection
NewHandle(s, kind) ==
    [dpiGen__setRefCount(s, ConnH, 1) EXCEPT
        !.handles = Append(@, Handle(kind, 1, 0))]

-----------------------------------------------------------------------------
(* dpiVar__allocateBuffers *)

EmptyDynBytes ==
    [numChunks |-> 0, allocatedChunks |-> 0, chunksId |-> 0, chunks |-> << >>]

EmptyData ==
    [isNull |-> FALSE, h |-> 0, ptr |-> NullPtr, length |-> 0,
     encoding |-> "NONE"]

VarType(s) == dpiOracleType__getFromNum(s.var.type)

\* an entry of the value array after malloc: the region of a byte string
\* holds the bytes written to it so far, none yet; another entry is not
\* initialized
FreshEntry(s) ==
    IF VarType(s).defaultNativeTypeNum = "BYTES" THEN << >> ELSE UNINIT

\* faulty variant: a dynamic variable gets the contiguous value array as well
AllocValueStorage_BothKinds(s) ==
    LET n == s.var.maxArraySize
    IN  IF Hit(s) THEN Failing(s, "NO_MEMORY allocate buffer")
        ELSE LET s1 == [Malloced(s) EXCEPT !.var.data =
                           [id |-> s.nextId, size |-> n * s.var.sizeInBytes,
                            v |-> [i \in 1..n |-> FreshEntry(s)]]]
             IN  IF ~s.var.isDynamic THEN s1
                 ELSE [Malloced(s1) EXCEPT !.var.dynamicBytes =
                          [id |-> s1.nextId, size |-> n,
                           v |-> [i \in 1..n |-> EmptyDynBytes]]]

\* faulty variant: the length of the value array is computed in 32 bits
AllocValueStorage_Wrapped(s) ==
    LET n == s.var.maxArraySize
        dataLength == (n * s.var.sizeInBytes) % UINT32_MOD
    IN  IF s.var.isDynamic
        THEN IF Hit(s)
             THEN [Failing(s, "NO_MEMORY allocate dynamic bytes") EXCEPT
                      !.var.dynamicBytes = NullArr]
             ELSE [Malloced(s) EXCEPT !.var.dynamicBytes =
                      [id |-> s.nextId, size |-> n,
                       v |-> [i \in 1..n |-> EmptyDynBytes]]]
        ELSE IF dataLength > INT_MAX
             THEN Fail(s, "ARRAY_SIZE_TOO_BIG")
             ELSE IF Hit(s)
             THEN [Failing(s, "NO_MEMORY allocate buffer") EXCEPT
                      !.var.data = NullArr]
             ELSE [Malloced(s) EXCEPT !.var.data =
                      [id |-> s.nextId, size |-> dataLength,
                       v |-> [i \in 1..n |-> FreshEntry(s)]]]

\* lines 136-153: the dynamic byte sets, or the contiguous value array
AllocValueStorage(s) ==
    LET n == s.var.maxArraySize
        dataLength == n * s.var.sizeInBytes
    IN  IF s.var.isDynamic
        THEN IF Hit(s)
             THEN [Failing(s, "NO_MEMORY allocate dynamic bytes") EXCEPT
                      !.var.dynamicBytes = NullArr]
             ELSE [Malloced(s) EXCEPT !.var.dynamicBytes =
                      [id |-> s.nextId, size |-> n,
                       v |-> [i \in 1..n |-> EmptyDynBytes]]]
        ELSE IF dataLength > INT_MAX
             THEN Fail(s, "ARRAY_SIZE_TOO_BIG")
             ELSE IF Hit(s)
             THEN [Failing(s, "NO_MEMORY allocate buffer") EXCEPT
                      !.var.data = NullArr]
             ELSE [Malloced(s) EXCEPT !.var.data =
                      [id |-> s.nextId, size |-> dataLength,
                       v |-> [i \in 1..n |-> FreshEntry(s)]]]

\* lines 155-164: the indicator array, every slot null
AllocIndicator(s) ==
    LET n == s.var.maxArraySize
    IN  IF s.var.indicator.id # 0 THEN s
        ELSE IF Hit(s) THEN Failing(s, "NO_MEMORY allocate indicator")
        ELSE [Malloced(s) EXCEPT !.var.indicator =
                 [id |-> s.nextId, size |-> n,
                  v |-> [i \in 1..n |-> OCI_IND_NULL]]]

\* lines 166-176: the actual lengths, every slot at the element size
AllocActualLength(s) ==
    LET n == s.var.maxArraySize
    IN  IF s.var.isDynamic \/ s.var.actualLength.id # 0 THEN s
        ELSE IF Hit(s) THEN Failing(s, "NO_MEMORY allocate actual length")
        ELSE [Malloced(s) EXCEPT !.var.actualLength =
                 [id |-> s.nextId, size |-> n,
                  v |-> [i \in 1..n |-> s.var.sizeInBytes]]]

\* lines 178-185: the return codes of variable length data (not initialized)
AllocReturnCode(s) ==
    LET n == s.var.maxArraySize
    IN  IF ~(VarType(s).defaultNativeTypeNum = "BYTES" /\ ~s.var.isDynamic
              /\ s.var.returnCode.id = 0) THEN s
        ELSE IF Hit(s) THEN Failing(s, "NO_MEMORY allocate return code")
        ELSE [Malloced(s) EXCEPT !.var.returnCode =
                 [id |-> s.nextId, size |-> n,
                  v |-> [i \in 1..n |-> UNINIT]]]

\* lines 191-193: the width of one slot of the scratch buffer
TempBufferSize(s) ==
    IF s.var.type = "NUMBER" /\ s.var.nativeTypeNum = "BYTES"
    THEN IF s.env.utf16 THEN DPI_NUMBER_AS_TEXT_CHARS * 2
         ELSE DPI_NUMBER_AS_TEXT_CHARS
    ELSE 0

\* lines 187-200: the scratch buffer of numbers transferred as text
AllocTempBuffer(s) ==
    IF ~(s.var.type = "NUMBER" /\ s.var.nativeTypeNum = "BYTES"
          /\ s.var.tempBuffer.id = 0) THEN s
    ELSE IF Hit(s) THEN Failing(s, "NO_MEMORY allocate temp buffer")
    ELSE [Malloced(s) EXCEPT !.var.tempBuffer =
             [id |-> s.nextId,
              size |-> (TempBufferSize(s) * s.var.maxArraySize) % UINT32_MOD,
              v |-> [i \in 1..s.var.maxArraySize |-> << >>]]]

\* lines 202-210: the external cells, every cell null
AllocExternalData(s) ==
    LET n == s.var.maxArraySize
    IN  IF s.var.externalData.id # 0 THEN s
        ELSE IF Hit(s) THEN Failing(s, "NO_MEMORY allocate external data")
        ELSE [Malloced(s) EXCEPT !.var.externalData =
                 [id |-> s.nextId, size |-> n,
                  v |-> [i \in 1..n |-> [EmptyData EXCEPT !.isNull = TRUE]]]]

\* lines 212-224: encoding and byte pointers of the cells of a bytes variable
WireBytes(s) ==
    IF s.var.nativeTypeNum # "BYTES" THEN s
    ELSE [s EXCEPT !.var.externalData.v =
            [i \in 1..s.var.maxArraySize |->
               [@[i] EXCEPT
                  !.encoding = IF VarType(s).charsetForm = "IMPLICIT"
                               THEN "encoding" ELSE "nencoding",
                  !.ptr = IF s.var.tempBuffer.id # 0
                          THEN [blk |-> s.var.tempBuffer.id,
                                off |-> ((i - 1) * TempBufferSize(s)) % UINT32_MOD]
                          ELSE IF s.var.actualLength.id # 0
                                  /\ s.var.dynamicBytes.id = 0
                          THEN [blk |-> s.var.data.id,
                                off |-> ((i - 1) * s.var.sizeInBytes) % UINT32_MOD]
                          ELSE @]]]

dpiVar__allocateBuffers(s) ==
    Then(Then(Then(Then(Then(Then(AllocValueStorage(s), AllocIndicator),
        AllocActualLength), AllocReturnCode), AllocTempBuffer),
        AllocExternalData), WireBytes)

-----------------------------------------------------------------------------
(* dpiVar__extendedPreFetch *)

\* release the reference slot i holds, if any, and clear it
ReleaseSlot(s, i) ==
    LET h == s.var.references.v[i + 1]
    IN  IF h = 0 THEN s
        ELSE [dpiGen__setRefCount(s, h, -1) EXCEPT
                 !.var.references.v[i + 1] = 0]

\* clear the native-facing entry and the external cell of slot i
ClearSlot(s, i) ==
    [s EXCEPT !.var.data.v[i + 1] = NULLH,
              !.var.externalData.v[i + 1].h = 0]

\* publish handle h in the native-facing entry and the external cell of slot i
PublishSlot(s, i, h) ==
    [s EXCEPT !.var.data.v[i + 1] = h,
              !.var.externalData.v[i + 1].h = h]

\* the handle the next successful allocation creates
NextHandle(s) == Len(s.handles) + 1

\* lines 553-572: one slot of a cursor variable
PreFetchStmt(s, i) ==
    LET s1 == ClearSlot(ReleaseSlot(s, i), i)
        h  == NextHandle(s1)
    IN  IF Hit(s1) THEN Failing(s1, "stmt allocate")
        ELSE LET s2 == [NewHandle(Tick(s1), "STMT") EXCEPT
                           !.var.references.v[i + 1] = h]
             IN  IF Hit(s2) THEN Failing(s2, "allocate statement")
                 ELSE PublishSlot(Tick(s2), i, h)

\* faulty variant: the slot's reference is overwritten without being released
PreFetchLob_NoRelease(s, i) ==
    LET s1 == ClearSlot(s, i)
        h  == NextHandle(s1)
    IN  IF Hit(s1) THEN Failing(s1, "lob allocate")
        ELSE PublishSlot([NewHandle(Tick(s1), "LOB") EXCEPT
                             !.var.references.v[i + 1] = h], i, h)

\* lines 578-594: one slot of a large-object variable
PreFetchLob(s, i) ==
    LET s1 == ClearSlot(ReleaseSlot(s, i), i)
        h  == NextHandle(s1)
    IN  IF Hit(s1) THEN Failing(s1, "lob allocate")
        ELSE LET s2 == PublishSlot([NewHandle(Tick(s1), "LOB") EXCEPT
                                       !.var.references.v[i + 1] = h], i, h)
             IN  IF s2.var.dynamicBytes.id = 0 THEN s2
                 ELSE IF Hit(s2) THEN Failing(s2, "create temporary")
                 ELSE Tick(s2)

\* lines 597-610: one slot of a row-id variable
PreFetchRowid(s, i) ==
    LET s1 == ClearSlot(ReleaseSlot(s, i), i)
        h  == NextHandle(s1)
    IN  IF Hit(s1) THEN Failing(s1, "rowid allocate")
        ELSE PublishSlot([NewHandle(Tick(s1), "ROWID") EXCEPT
                             !.var.references.v[i + 1] = h], i, h)

\* lines 613-623: one slot of an object variable
PreFetchObject(s, i) ==
    [ClearSlot(ReleaseSlot(s, i), i) EXCEPT
        !.var.objectIndicator.v[i + 1] = NULLH]

PreFetchSlot(s, i) ==
    CASE s.var.type = "STMT" -> PreFetchStmt(s, i)
      [] s.var.type \in LobTypes -> PreFetchLob(s, i)
      [] s.var.type = "ROWID" -> PreFetchRowid(s, i)
      [] s.var.type = "OBJECT" -> PreFetchObject(s, i)
      [] OTHER -> s

RECURSIVE PreFetchSlots(_, _)
PreFetchSlots(s, i) ==
    IF ~Ok(s) \/ i >= s.var.maxArraySize THEN s
    ELSE PreFetchSlots(PreFetchSlot(s, i), i + 1)

dpiVar__extendedPreFetch(s) ==
    IF s.var.isDynamic
    THEN [s EXCEPT !.var.dynamicBytes.v =
            [i \in 1..s.var.maxArraySize |-> [@[i] EXCEPT !.numChunks = 0]]]
    ELSE PreFetchSlots(s, 0)

-----------------------------------------------------------------------------
(* dpiVar__extendedInitialize *)

\* lines 473-480: the array of references, every entry empty
AllocReferences(s) ==
    LET n == s.var.maxArraySize
    IN  IF ~(VarType(s).requiresPreFetch /\ ~s.var.isDynamic) THEN s
        ELSE IF Hit(s)
        THEN [Failing(s, "NO_MEMORY allocate references") EXCEPT
                 !.var.references = NullArr]
        ELSE [Malloced(s) EXCEPT !.var.references =
                 [id |-> s.nextId, size |-> n, v |-> [i \in 1..n |-> 0]]]

\* OCIArrayDescriptorAlloc into the value array
ArrayDescriptorAlloc(s) ==
    IF Hit(s) THEN Failing(s, "allocate descriptors")
    ELSE [Tick(s) EXCEPT
             !.oci.descArrays = @ + 1,
             !.var.data.v = [i \in 1..s.var.maxArraySize |-> DESC]]

\* lines 516-524: the indicator pointers of an object variable
AllocObjectIndicator(s) ==
    LET n == s.var.maxArraySize
    IN  IF s.var.objectType = 0 THEN Fail(s, "NO_OBJECT_TYPE")
        ELSE IF Hit(s)
        THEN [Failing(s, "NO_MEMORY allocate object indicator") EXCEPT
                 !.var.objectIndicator = NullArr]
        ELSE [Malloced(s) EXCEPT !.var.objectIndicator =
                 [id |-> s.nextId, size |-> n, v |-> [i \in 1..n |-> UNINIT]]]

\* lines 483-528: the type specific part
InitializeByType(s) ==
    CASE s.var.type \in TimestampTypes \cup IntervalTypes ->
            ArrayDescriptorAlloc(s)
      [] s.var.type \in LobTypes \cup {"STMT", "ROWID"} ->
            dpiVar__extendedPreFetch(s)
      [] s.var.type = "OBJECT" ->
            Then(AllocObjectIndicator(s), dpiVar__extendedPreFetch)
      [] OTHER -> s

dpiVar__extendedInitialize(s) == Then(AllocReferences(s), InitializeByType)

dpiVar__initBuffers(s) ==
    Then(dpiVar__allocateBuffers(s), dpiVar__extendedInitialize)

-----------------------------------------------------------------------------
(* dpiVar__finalizeBuffers, dpiVar__free *)

\* OCIArrayDescriptorFree on the value array: releases a descriptor array
\* that OCIArrayDescriptorAlloc filled; anything else handed to it is counted
ArrayDescriptorFree(s) ==
    IF s.var.data.id # 0 /\ s.var.data.v[1] = DESC
    THEN [s EXCEPT !.oci.descArrays = @ - 1,
                   !.var.data.v = [i \in 1..Len(@) |-> DESC_FREED]]
    ELSE [s EXCEPT !.oci.badDescFree = @ + 1]

\* OCIArrayDescriptorFree on the row-id handles of the value array, which
\* were acquired one by one: the first entry's native descriptor is released
RowidDescriptorFree(s) ==
    IF s.var.data.id # 0 /\ s.var.data.v[1] > 0
    THEN [s EXCEPT !.handles[s.var.data.v[1]].nfree = @ + 1]
    ELSE [s EXCEPT !.oci.badDescFree = @ + 1]

\* lines 642-670
FreeDescriptors(s) ==
    CASE s.var.type \in TimestampTypes \cup IntervalTypes ->
            ArrayDescriptorFree(s)
      [] s.var.type = "ROWID" -> RowidDescriptorFree(s)
      [] OTHER -> s

RECURSIVE ReleaseReferences(_, _)
ReleaseReferences(s, i) ==
    IF i >= s.var.maxArraySize THEN s
    ELSE ReleaseReferences(ReleaseSlot(s, i), i + 1)

\* faulty variant: the array of references is freed with its references still held
FreeReferences_NoRelease(s) ==
    IF s.var.references.id = 0 THEN s
    ELSE [FreeBlk(s, s.var.references.id) EXCEPT !.var.references = NullArr]

\* lines 672-682
FreeReferences(s) ==
    IF s.var.references.id = 0 THEN s
    ELSE [FreeBlk(ReleaseReferences(s, 0), s.var.references.id) EXCEPT
             !.var.references = NullArr]

RECURSIVE FreeChunkPtrs(_, _, _)
FreeChunkPtrs(s, chunks, j) ==
    IF j > Len(chunks) THEN s
    ELSE FreeChunkPtrs(FreeBlk(s, chunks[j].ptr), chunks, j + 1)

\* the blocks the dynamic byte sets of a variable hold: the array of the
\* sets, the chunk array of each slot and the buffer of each chunk
ChunkBlocks(v) ==
    ({v.dynamicBytes.id}
        \cup { v.dynamicBytes.v[i].chunksId : i \in 1..Len(v.dynamicBytes.v) }
        \cup UNION { { v.dynamicBytes.v[i].chunks[j].ptr :
                         j \in 1..Len(v.dynamicBytes.v[i].chunks) } :
                     i \in 1..Len(v.dynamicBytes.v) }) \ {0}

\* faulty variant: the chunk arrays are freed and the buffers of the chunks
\* are not
RECURSIVE FreeDynBytes_ArraysOnly(_, _)
FreeDynBytes_ArraysOnly(s, i) ==
    IF i >= s.var.maxArraySize THEN s
    ELSE LET d == s.var.dynamicBytes.v[i + 1]
         IN  IF d.allocatedChunks > 0
             THEN FreeDynBytes_ArraysOnly(FreeBlk(s, d.chunksId), i + 1)
             ELSE FreeDynBytes_ArraysOnly(s, i + 1)

\* lines 686-699: the chunks of the dynamic byte sets
RECURSIVE FreeDynBytes(_, _)
FreeDynBytes(s, i) ==
    IF i >= s.var.maxArraySize THEN s
    ELSE LET d == s.var.dynamicBytes.v[i + 1]
         IN  IF d.allocatedChunks > 0
             THEN FreeDynBytes(
                    FreeBlk(FreeChunkPtrs(s, d.chunks, 1), d.chunksId), i + 1)
             ELSE FreeDynBytes(s, i + 1)

\* lines 684-702
FreeDynamicBytes(s) ==
    IF s.var.dynamicBytes.id = 0 THEN s
    ELSE [FreeBlk(FreeDynBytes(s, 0), s.var.dynamicBytes.id) EXCEPT
             !.var.dynamicBytes = NullArr]

\* lines 704-738
FreeOther(s) ==
    LET v  == s.var
        s1 == FreeBlk(s, v.indicator.id)
        s2 == FreeBlk(s1, v.returnCode.id)
        s3 == FreeBlk(s2, v.actualLength.id)
        s4 == FreeBlk(s3, v.externalData.id)
        s5 == FreeBlk(s4, v.data.id)
        s6 == FreeBlk(s5, v.objectIndicator.id)
        s7 == FreeBlk(s6, v.tempBuffer.id)
    IN  [s7 EXCEPT !.var.indicator = NullArr, !.var.returnCode = NullArr,
                   !.var.actualLength = NullArr,
                   !.var.externalData = NullArr, !.var.data = NullArr,
                   !.var.objectIndicator = NullArr,
                   !.var.tempBuffer = NullArr]

dpiVar__finalizeBuffers(s) ==
    FreeOther(FreeDynamicBytes(FreeReferences(FreeDescriptors(s))))

dpiVar__free(s) ==
    LET s1 == dpiVar__finalizeBuffers(s)
        s2 == IF s1.var.objectType # 0
              THEN dpiGen__setRefCount(s1, s1.var.objectType, -1) ELSE s1
        s3 == IF s2.var.conn # 0
              THEN dpiGen__setRefCount(s2, s2.var.conn, -1) ELSE s2
    IN  [FreeBlk(s3, s3.var.blk) EXCEPT !.var = NoVar]

-----------------------------------------------------------------------------
(* dpiVar__validateTypes, dpiVar__allocate *)

\* faulty variant: a date is taken for a timestamp
dpiVar__validateTypes_DateAsTimestamp(type, nativeTypeNum) ==
    CASE type.oracleTypeNum \in TimestampTypes \cup {"DATE"} ->
            nativeTypeNum = "DOUBLE"
      [] type.oracleTypeNum = "NATIVE_INT" -> nativeTypeNum = "UINT64"
      [] type.oracleTypeNum = "NUMBER" ->
            nativeTypeNum \in {"INT64", "UINT64", "BYTES"}
      [] OTHER -> FALSE

\* lines 1415-1434: the native types accepted besides the default one
dpiVar__validateTypes(type, nativeTypeNum) ==
    CASE type.oracleTypeNum \in TimestampTypes -> nativeTypeNum = "DOUBLE"
      [] type.oracleTypeNum = "NATIVE_INT" -> nativeTypeNum = "UINT64"
      [] type.oracleTypeNum = "NUMBER" ->
            nativeTypeNum \in {"INT64", "UINT64", "BYTES"}
      [] OTHER -> FALSE

\* lines 69-78: the element size in bytes
SizeInBytes(s, type, a) ==
    LET size == IF a.size = 0 THEN 1 ELSE a.size
    IN  IF type.sizeInBytes # 0 THEN type.sizeInBytes
        ELSE IF a.sizeIsBytes \/ ~type.isCharacterData THEN size
        ELSE IF type.charsetForm = "IMPLICIT"
        THEN (size * s.env.maxBytesPerCharacter) % UINT32_MOD
        ELSE (size * s.env.nmaxBytesPerCharacter) % UINT32_MOD

\* lines 85-95: the variable after basic initialization
BasicVar(s, type, a) ==
    LET sizeInBytes == SizeInBytes(s, type, a)
        dyn == sizeInBytes > DPI_MAX_BASIC_BUFFER_SIZE
    IN  [NoVar EXCEPT !.alive = TRUE, !.blk = s.nextId,
                      !.maxArraySize = a.maxArraySize,
                      !.sizeInBytes = IF dyn THEN 0 ELSE sizeInBytes,
                      !.isDynamic = dyn, !.requiresPreFetch = dyn,
                      !.type = type.oracleTypeNum,
                      !.nativeTypeNum = a.nativeTypeNum,
                      !.isArray = a.isArray]

\* lines 101-112: take a reference on the object type, if one is given
AttachObjectType(s, a) ==
    IF a.objType = 0 THEN s
    ELSE IF ~dpiGen__checkHandle(s, a.objType, "OBJTYPE")
    THEN Fail(s, "INVALID_HANDLE")
    ELSE IF Hit(s) THEN Failing(s, "set ref count")
    ELSE [dpiGen__setRefCount(Tick(s), a.objType, 1) EXCEPT
             !.var.objectType = a.objType]

\* lines 96-100: take a reference on the connection
AttachConn(s, a) ==
    IF Hit(s) THEN Failing(s, "set ref count")
    ELSE [dpiGen__setRefCount(Tick(s), a.conn, 1) EXCEPT !.var.conn = a.conn]

\* faulty variant: a failure returns without freeing the variable
AllocateVar_NoFree(s, type, a) ==
    IF Hit(s) THEN Failing(s, "NO_MEMORY allocate handle")
    ELSE LET s1 == [Malloced(s) EXCEPT !.var = BasicVar(s, type, a)]
             s2 == AttachConn(s1, a)
             s3 == Then(s2, LAMBDA x : AttachObjectType(x, a))
         IN  Then(s3, dpiVar__initBuffers)

\* lines 80-123: from dpiGen__allocate on; a failure frees the variable
AllocateVar(s, type, a) ==
    IF Hit(s) THEN Failing(s, "NO_MEMORY allocate handle")
    ELSE LET s1 == [Malloced(s) EXCEPT !.var = BasicVar(s, type, a)]
             s2 == AttachConn(s1, a)
             s3 == Then(s2, LAMBDA x : AttachObjectType(x, a))
             s4 == Then(s3, dpiVar__initBuffers)
         IN  IF Ok(s4) THEN s4 ELSE dpiVar__free(s4)

\* faulty variant: the capacity is checked after the array check
dpiVar__allocate_SizeCheckLate(s, a) ==
    IF a.oracleTypeNum \notin OracleTypeNums
    THEN Fail(s, "UNKNOWN_TYPE")
    ELSE LET type == dpiOracleType__getFromNum(a.oracleTypeNum)
         IN  IF a.isArray /\ ~type.canBeInArray
             THEN Fail(s, "NOT_SUPPORTED")
             ELSE IF a.maxArraySize = 0 THEN Fail(s, "ARRAY_SIZE_ZERO")
             ELSE IF /\ a.nativeTypeNum # type.defaultNativeTypeNum
                     /\ ~dpiVar__validateTypes(type, a.nativeTypeNum)
             THEN Fail(s, "UNHANDLED_CONVERSION")
             ELSE AllocateVar(s, type, a)

\* lines 53-67: validation of the arguments
dpiVar__allocate(s, a) ==
    IF a.oracleTypeNum \notin OracleTypeNums
    THEN Fail(s, "UNKNOWN_TYPE")
    ELSE LET type == dpiOracleType__getFromNum(a.oracleTypeNum)
         IN  IF a.maxArraySize = 0 THEN Fail(s, "ARRAY_SIZE_ZERO")
             ELSE IF a.isArray /\ ~type.canBeInArray
             THEN Fail(s, "NOT_SUPPORTED")
             ELSE IF /\ a.nativeTypeNum # type.defaultNativeTypeNum
                     /\ ~dpiVar__validateTypes(type, a.nativeTypeNum)
             THEN Fail(s, "UNHANDLED_CONVERSION")
             ELSE AllocateVar(s, type, a)

-----------------------------------------------------------------------------
(* Dynamic bytes: dpiVar__allocateChunks, dpiVar__allocateDynamicBytes *)

EmptyChunk == [ptr |-> 0, length |-> 0, allocatedLength |-> 0, bytes |-> << >>]

\* faulty variant: the chunk entries in use are not copied to the new array
dpiVar__allocateChunks_NoCopy(s, i) ==
    LET d == s.var.dynamicBytes.v[i + 1]
        allocatedChunks == d.allocatedChunks + CHUNKS_INCREMENT
    IN  IF Hit(s) THEN Failing(s, "NO_MEMORY allocate chunks")
        ELSE [FreeBlk(Malloced(s), d.chunksId) EXCEPT
                 !.var.dynamicBytes.v[i + 1] =
                     [d EXCEPT
                        !.chunks = [j \in 1..allocatedChunks |-> EmptyChunk],
                        !.chunksId = s.nextId,
                        !.allocatedChunks = allocatedChunks]]

\* lines 234-251: eight more chunk entries, the numChunks used ones copied
dpiVar__allocateChunks(s, i) ==
    LET d == s.var.dynamicBytes.v[i + 1]
        allocatedChunks == d.allocatedChunks + CHUNKS_INCREMENT
    IN  IF Hit(s) THEN Failing(s, "NO_MEMORY allocate chunks")
        ELSE [FreeBlk(Malloced(s), d.chunksId) EXCEPT
                 !.var.dynamicBytes.v[i + 1] =
                     [d EXCEPT
                        !.chunks = [j \in 1..allocatedChunks |->
                                      IF j <= d.numChunks THEN d.chunks[j]
                                      ELSE EmptyChunk],
                        !.chunksId = s.nextId,
                        !.allocatedChunks = allocatedChunks]]

\* lines 277-279: the size rounded up to the quantum, in 32 bits
RoundUpToChunk(size) ==
    LET x == (size + DPI_DYNAMIC_BYTES_CHUNK_SIZE - 1) % UINT32_MOD
    IN  x - (x % DPI_DYNAMIC_BYTES_CHUNK_SIZE)

\* lines 274-283: the first chunk made large enough for size bytes
EnsureFirstChunk(s, i, size) ==
    LET c == s.var.dynamicBytes.v[i + 1].chunks[1]
        alloc == RoundUpToChunk(size)
        s1 == [FreeBlk(s, c.ptr) EXCEPT
                  !.var.dynamicBytes.v[i + 1].chunks[1].allocatedLength = alloc]
    IN  IF size <= c.allocatedLength THEN s
        ELSE IF Hit(s1)
        THEN [Failing(s1, "NO_MEMORY allocate chunk") EXCEPT
                 !.var.dynamicBytes.v[i + 1].chunks[1].ptr = 0]
        ELSE [Malloced(s1) EXCEPT
                 !.var.dynamicBytes.v[i + 1].chunks[1].ptr = s1.nextId]

\* lines 260-286
dpiVar__allocateDynamicBytes(s, i, size) ==
    LET s1 == [s EXCEPT !.var.dynamicBytes.v[i + 1].numChunks = 0]
        s2 == IF s1.var.dynamicBytes.v[i + 1].allocatedChunks = 0
              THEN dpiVar__allocateChunks(s1, i) ELSE s1
    IN  Then(s2, LAMBDA x : EnsureFirstChunk(x, i, size))

-----------------------------------------------------------------------------
(* Writing a slot: dpiVar__setFromBytes, dpiVar__setFromLob, ... *)

\* dpiLob__setFromBytes: the large object's content becomes the value
dpiLob__setFromBytes(s, h, value) ==
    IF Hit(s) THEN Failing(s, "lob write")
    ELSE [Tick(s) EXCEPT !.handles[h].content = value]

\* lines 1112-1120: the value does not fit the target
SourceTooLong(s, valueLength) ==
    \/ /\ s.var.tempBuffer.id # 0 /\ s.env.utf16
       /\ valueLength > DPI_NUMBER_AS_TEXT_CHARS * 2
    \/ /\ s.var.tempBuffer.id # 0 /\ ~s.env.utf16
       /\ valueLength > DPI_NUMBER_AS_TEXT_CHARS
    \/ /\ s.var.dynamicBytes.id = 0 /\ s.var.tempBuffer.id = 0
       /\ valueLength > s.var.sizeInBytes

\* faulty variant: the length recorded is the reserved length of the chunk
SetDynamicBytes_ReservedLength(s, pos, value) ==
    LET s1 == dpiVar__allocateDynamicBytes(s, pos, Len(value))
        c  == s1.var.dynamicBytes.v[pos + 1].chunks[1]
    IN  IF ~Ok(s1) THEN s1
        ELSE [s1 EXCEPT
                !.var.dynamicBytes.v[pos + 1].chunks[1].bytes = value,
                !.var.dynamicBytes.v[pos + 1].numChunks = 1,
                !.var.dynamicBytes.v[pos + 1].chunks[1].length =
                    c.allocatedLength,
                !.var.externalData.v[pos + 1].ptr = [blk |-> c.ptr, off |-> 0],
                !.var.externalData.v[pos + 1].length = c.allocatedLength]

\* lines 1131-1141: a dynamic slot gets one chunk holding the value; when
\* the chunk has a reserved length and no buffer, which an allocation that
\* failed leaves behind, the copy at line 1137 goes through a null pointer
\* and ends the program
SetDynamicBytes(s, pos, value) ==
    LET s1 == dpiVar__allocateDynamicBytes(s, pos, Len(value))
        ptr == s1.var.dynamicBytes.v[pos + 1].chunks[1].ptr
    IN  IF ~Ok(s1) THEN s1
        ELSE IF ptr = 0 /\ Len(value) > 0 THEN Fail(s1, "NULL_DEREFERENCE")
        ELSE [s1 EXCEPT
                !.var.dynamicBytes.v[pos + 1].chunks[1].bytes = value,
                !.var.dynamicBytes.v[pos + 1].numChunks = 1,
                !.var.dynamicBytes.v[pos + 1].chunks[1].length = Len(value),
                !.var.externalData.v[pos + 1].ptr = [blk |-> ptr, off |-> 0],
                !.var.externalData.v[pos + 1].length = Len(value)]

\* memcpy of value to the start of a region of bytes
Overwrite(region, value) ==
    value \o SubSeq(region, Len(value) + 1, Len(region))

\* line 1147: the value goes where the cell's pointer was wired to, the
\* slot's region of the scratch buffer or of the value array
CopyToCell(s, pos, value) ==
    LET blk == s.var.externalData.v[pos + 1].ptr.blk
    IN  IF blk # 0 /\ blk = s.var.tempBuffer.id
        THEN [s EXCEPT !.var.tempBuffer.v[pos + 1] = Overwrite(@, value)]
        ELSE IF blk # 0 /\ blk = s.var.data.id
        THEN [s EXCEPT !.var.data.v[pos + 1] = Overwrite(@, value)]
        ELSE s

\* lines 1143-1152: a fixed slot takes the value in its reserved region
SetFixedBytes(s, pos, value) ==
    LET s0 == [s EXCEPT !.var.externalData.v[pos + 1].length = Len(value)]
        s1 == IF Len(value) > 0 THEN CopyToCell(s0, pos, value) ELSE s0
        s2 == IF s1.var.actualLength.id # 0
              THEN [s1 EXCEPT !.var.actualLength.v[pos + 1] = Len(value)]
              ELSE s1
    IN  IF s2.var.returnCode.id # 0
        THEN [s2 EXCEPT !.var.returnCode.v[pos + 1] = 0]
        ELSE s2

\* faulty variant: the cell is marked not null before the length is checked
dpiVar__setFromBytes_MarkFirst(s, pos, value) ==
    LET s1 == [s EXCEPT !.var.externalData.v[pos + 1].isNull = FALSE]
    IN  IF SourceTooLong(s, Len(value)) THEN Fail(s1, "BUFFER_SIZE_TOO_SMALL")
        ELSE IF s1.var.references.id # 0
        THEN dpiLob__setFromBytes(s1, s1.var.references.v[pos + 1], value)
        ELSE IF s1.var.dynamicBytes.id # 0
        THEN SetDynamicBytes(s1, pos, value)
        ELSE SetFixedBytes(s1, pos, value)

\* lines 1105-1155
dpiVar__setFromBytes(s, pos, value) ==
    IF SourceTooLong(s, Len(value)) THEN Fail(s, "BUFFER_SIZE_TOO_SMALL")
    ELSE LET s1 == [s EXCEPT !.var.externalData.v[pos + 1].isNull = FALSE]
         IN  IF s1.var.references.id # 0
             THEN dpiLob__setFromBytes(s1, s1.var.references.v[pos + 1], value)
             ELSE IF s1.var.dynamicBytes.id # 0
             THEN SetDynamicBytes(s1, pos, value)
             ELSE SetFixedBytes(s1, pos, value)

\* the kind of handle each native type of a complex slot takes
HandleKind(nativeTypeNum) ==
    CASE nativeTypeNum = "LOB" -> "LOB"
      [] nativeTypeNum = "OBJECT" -> "OBJECT"
      [] nativeTypeNum = "ROWID" -> "ROWID"
      [] nativeTypeNum = "STMT" -> "STMT"
      [] OTHER -> "NONE"

\* faulty variant: the old reference is kept when the new one is taken
ReplaceReference_NoRelease(s, pos, h) ==
    PublishSlot([dpiGen__setRefCount(s, h, 1) EXCEPT
                    !.var.references.v[pos + 1] = h], pos, h)

\* lines 1180-1191, 1218-1230, 1256-1267, 1293-1304: the old reference is
\* released, one is taken on h, and h is published
ReplaceReference(s, pos, h) ==
    LET s1 == ReleaseSlot(s, pos)
        s2 == [dpiGen__setRefCount(s1, h, 1) EXCEPT
                  !.var.references.v[pos + 1] = h]
        s3 == PublishSlot(s2, pos, h)
    IN  IF s.handles[h].kind = "OBJECT"
        THEN [s3 EXCEPT !.var.objectIndicator.v[pos + 1] = h]
        ELSE s3

\* faulty variant: the handle is replaced even when the slot already holds it
dpiVar__setFromHandle_AlwaysReplace(s, pos, h, kind) ==
    IF ~dpiGen__checkHandle(s, h, kind) THEN Fail(s, "INVALID_HANDLE")
    ELSE ReplaceReference(
            [s EXCEPT !.var.externalData.v[pos + 1].isNull = FALSE], pos, h)

\* the body dpiVar__setFromLob, dpiVar__setFromObject, dpiVar__setFromRowid
\* and dpiVar__setFromStmt share: they differ in the kind of handle only
dpiVar__setFromHandle(s, pos, h, kind) ==
    IF ~dpiGen__checkHandle(s, h, kind) THEN Fail(s, "INVALID_HANDLE")
    ELSE LET s1 == [s EXCEPT !.var.externalData.v[pos + 1].isNull = FALSE]
         IN  IF s1.var.references.v[pos + 1] = h THEN s1
             ELSE ReplaceReference(s1, pos, h)

\* lines 1163-1192
dpiVar__setFromLob(s, pos, lob) == dpiVar__setFromHandle(s, pos, lob, "LOB")

\* lines 1201-1231
dpiVar__setFromObject(s, pos, obj) ==
    dpiVar__setFromHandle(s, pos, obj, "OBJECT")

\* lines 1239-1268
dpiVar__setFromRowid(s, pos, rowid) ==
    dpiVar__setFromHandle(s, pos, rowid, "ROWID")

\* lines 1276-1305
dpiVar__setFromStmt(s, pos, stmt) ==
    dpiVar__setFromHandle(s, pos, stmt, "STMT")

\* lines 324-333
dpiVar__checkArraySize(s, pos) ==
    IF pos >= s.var.maxArraySize THEN Fail(s, "ARRAY_SIZE_EXCEEDED") ELSE s

\* lines 1592-1602
dpiVar_setFromLob(s, pos, lob) ==
    LET s1 == dpiVar__checkArraySize(s, pos)
    IN  IF ~Ok(s1) THEN s1
        ELSE IF s.var.nativeTypeNum # "LOB" THEN Fail(s, "NOT_SUPPORTED")
        ELSE dpiVar__setFromLob(s, pos, lob)

\* lines 1611-1620
dpiVar_setFromObject(s, pos, obj) ==
    LET s1 == dpiVar__checkArraySize(s, pos)
    IN  IF ~Ok(s1) THEN s1
        ELSE IF s.var.nativeTypeNum # "OBJECT" THEN Fail(s, "NOT_SUPPORTED")
        ELSE dpiVar__setFromObject(s, pos, obj)

\* lines 1629-1638
dpiVar_setFromRowid(s, pos, rowid) ==
    LET s1 == dpiVar__checkArraySize(s, pos)
    IN  IF ~Ok(s1) THEN s1
        ELSE IF s.var.nativeTypeNum # "ROWID" THEN Fail(s, "NOT_SUPPORTED")
        ELSE dpiVar__setFromRowid(s, pos, rowid)

\* lines 1647-1656
dpiVar_setFromStmt(s, pos, stmt) ==
    LET s1 == dpiVar__checkArraySize(s, pos)
    IN  IF ~Ok(s1) THEN s1
        ELSE IF s.var.nativeTypeNum # "STMT" THEN Fail(s, "NOT_SUPPORTED")
        ELSE dpiVar__setFromStmt(s, pos, stmt)

\* lines 1572-1583
dpiVar_setFromBytes(s, pos, value) ==
    LET s1 == dpiVar__checkArraySize(s, pos)
    IN  IF ~Ok(s1) THEN s1
        ELSE IF s.var.nativeTypeNum # "BYTES" THEN Fail(s, "NOT_SUPPORTED")
        ELSE dpiVar__setFromBytes(s, pos, value)

-----------------------------------------------------------------------------
(* dpiVar_resize, dpiVar__convertToLob *)

\* faulty variant: a dynamic variable gets new buffers like a fixed one
dpiVar_resize_DynamicToo(s, sizeInBytes) ==
    IF s.var.nativeTypeNum # "BYTES" THEN Fail(s, "NOT_SUPPORTED")
    ELSE dpiVar__allocateBuffers(
            [FreeBlk(s, s.var.data.id) EXCEPT
                !.var.data = NullArr, !.var.sizeInBytes = sizeInBytes])

\* lines 1548-1562
dpiVar_resize(s, sizeInBytes) ==
    IF s.var.nativeTypeNum # "BYTES" THEN Fail(s, "NOT_SUPPORTED")
    ELSE IF s.var.dynamicBytes.id # 0 THEN s
    ELSE dpiVar__allocateBuffers(
            [FreeBlk(s, s.var.data.id) EXCEPT
                !.var.data = NullArr, !.var.sizeInBytes = sizeInBytes])

\* lines 349-357: the large-object type that replaces the original type
LobTypeFor(oracleTypeNum) ==
    IF oracleTypeNum \in {"RAW", "LONG_RAW"} THEN "BLOB"
    ELSE IF oracleTypeNum \in {"NCHAR", "LONG_NVARCHAR"} THEN "NCLOB"
    ELSE "CLOB"

\* lines 367-375: the value each slot already holds goes to its large object
RECURSIVE CopyChunksToLobs(_, _)
CopyChunksToLobs(s, i) ==
    IF ~Ok(s) \/ i >= s.var.maxArraySize THEN s
    ELSE LET d == s.var.dynamicBytes.v[i + 1]
         IN  IF d.numChunks = 0 THEN CopyChunksToLobs(s, i + 1)
             ELSE CopyChunksToLobs(
                    dpiLob__setFromBytes(s, s.var.references.v[i + 1],
                        SubSeq(d.chunks[1].bytes, 1, d.chunks[1].length)),
                    i + 1)

\* lines 342-378
dpiVar__convertToLob(s) ==
    LET type == dpiOracleType__getFromNum(LobTypeFor(s.var.type))
        s1 == [s EXCEPT !.var.type = type.oracleTypeNum,
                        !.var.sizeInBytes = type.sizeInBytes,
                        !.var.isDynamic = FALSE]
    IN  Then(dpiVar__initBuffers(s1), LAMBDA x : CopyChunksToLobs(x, 0))

-----------------------------------------------------------------------------
(* dpiVar__outBindCallback *)

\* faulty variant: the buffers are rebuilt in every call that finds them no larger
\* than the rows reported
NeedsRegrow_Always(v, index, numRowsReturned) ==
    numRowsReturned >= v.maxArraySize

\* lines 958, 968: the buffers are too small for the rows reported
NeedsRegrow(v, index, numRowsReturned) ==
    index = 0 /\ numRowsReturned > v.maxArraySize

\* lines 295-317: where the native layer is to put the value of slot index
dpiVar__assignCallbackBuffer(s, index) ==
    IF s.var.type \in TimestampTypes \cup IntervalTypes \cup LobTypes
    THEN [blk |-> s.var.data.id, off |-> index * PTR_SIZE,
          h |-> s.var.data.v[index + 1]]
    ELSE [blk |-> s.var.data.id,
          off |-> (index * s.var.sizeInBytes) % UINT32_MOD, h |-> 0]

\* lines 906-929: the buffer, length and indicator of slot index, for a bind
\* of input data
dpiVar__inBindCallback(s, index) ==
    LET d == s.var.dynamicBytes.v[index + 1]
    IN  [s EXCEPT !.out =
            [bufp |-> IF ~s.var.isDynamic
                      THEN dpiVar__assignCallbackBuffer(s, index)
                      ELSE IF d.allocatedChunks = 0
                      THEN [blk |-> 0, off |-> 0, h |-> 0]
                      ELSE [blk |-> d.chunks[1].ptr, off |-> 0, h |-> 0],
             alen |-> IF ~s.var.isDynamic
                      THEN IF s.var.actualLength.id # 0
                           THEN s.var.actualLength.v[index + 1]
                           ELSE VarType(s).sizeInBytes
                      ELSE IF d.allocatedChunks = 0 THEN 0
                      ELSE d.chunks[1].length,
             piece |-> "ONE_PIECE",
             indp |-> [blk |-> s.var.indicator.id, off |-> index]]]

\* lines 978-1003: the pointers handed to the native layer
AssignPointers(s, index) ==
    LET s1 == IF s.var.actualLength.id # 0
              THEN [s EXCEPT !.var.actualLength.v[index + 1] =
                                 s.var.sizeInBytes]
              ELSE s
    IN  [s1 EXCEPT !.out =
            [bufp |-> dpiVar__assignCallbackBuffer(s1, index),
             alenp |-> [blk |-> s1.var.actualLength.id, off |-> index],
             indp |-> [blk |-> s1.var.indicator.id, off |-> index],
             rcodep |-> [blk |-> s1.var.returnCode.id, off |-> index]]]

\* lines 961-965: the number of rows is asked for in the first call only
GetRowsReturned(s, index) ==
    IF index # 0 THEN s
    ELSE IF Hit(s) THEN Failing(s, "get rows returned")
    ELSE Tick(s)

\* faulty variant: the buffers are built for the rows reported without the
\* teardown of the ones the variable has
Regrow_NoTeardown(s, index, numRowsReturned) ==
    IF ~NeedsRegrow(s.var, index, numRowsReturned) THEN s
    ELSE dpiVar__initBuffers(
            [s EXCEPT !.var.maxArraySize = numRowsReturned])

\* lines 968-973: the buffers are torn down and built for the rows reported
Regrow(s, index, numRowsReturned) ==
    IF ~NeedsRegrow(s.var, index, numRowsReturned) THEN s
    ELSE dpiVar__initBuffers(
            [dpiVar__finalizeBuffers(s) EXCEPT
                !.var.maxArraySize = numRowsReturned])

\* faulty variant: the pointers are assigned before the buffers are rebuilt
dpiVar__outBindCallback_AssignFirst(s, index, numRowsReturned) ==
    LET s1 == Then(GetRowsReturned(s, index),
                   LAMBDA x : AssignPointers(x, index))
    IN  Then(s1, LAMBDA x : Regrow(x, index, numRowsReturned))

\* lines 950-1004
dpiVar__outBindCallback(s, index, numRowsReturned) ==
    LET s1 == Then(GetRowsReturned(s, index),
                   LAMBDA x : Regrow(x, index, numRowsReturned))
    IN  Then(s1, LAMBDA x : AssignPointers(x, index))

-----------------------------------------------------------------------------
(* Reading a slot: dpiVar__setBytesFromDynamicBytes, dpiVar__getValue *)

\* the external cell of slot pos gets the pointer and length of a byte string
ExposeBytes(s, pos, blk, length) ==
    [s EXCEPT !.var.externalData.v[pos + 1].ptr = [blk |-> blk, off |-> 0],
              !.var.externalData.v[pos + 1].length = length]

\* lines 1026-1028: the sum of the reserved lengths of the first n chunks
RECURSIVE TotalAllocatedLength(_, _)
TotalAllocatedLength(chunks, n) ==
    IF n = 0 THEN 0
    ELSE (TotalAllocatedLength(chunks, n - 1) + chunks[n].allocatedLength)
            % UINT32_MOD

\* lines 1036-1040: the valid bytes of the first n chunks, in chunk order
RECURSIVE ValidBytes(_, _)
ValidBytes(chunks, n) ==
    IF n = 0 THEN << >>
    ELSE ValidBytes(chunks, n - 1)
            \o [k \in 1..chunks[n].length |->
                   IF k <= Len(chunks[n].bytes) THEN chunks[n].bytes[k]
                   ELSE UNINIT]

\* faulty variant: the chunks are combined without their buffers being freed
Consolidate_NoFree(s, pos) ==
    LET d == s.var.dynamicBytes.v[pos + 1]
        n == d.numChunks
        bytes == ValidBytes(d.chunks, n)
        s1 == [Malloced(s) EXCEPT !.var.dynamicBytes.v[pos + 1] =
                 [d EXCEPT
                    !.numChunks = 1,
                    !.chunks = [j \in 1..Len(d.chunks) |->
                                  IF j = 1
                                  THEN [ptr |-> s.nextId, length |-> Len(bytes),
                                        allocatedLength |->
                                            TotalAllocatedLength(d.chunks, n),
                                        bytes |-> bytes]
                                  ELSE IF j <= n THEN EmptyChunk
                                  ELSE d.chunks[j]]]]
    IN  IF Hit(s)
        THEN [Failing(s, "NO_MEMORY allocate chunk") EXCEPT
                 !.var.externalData.v[pos + 1].ptr = NullPtr]
        ELSE ExposeBytes(s1, pos, s.nextId, Len(bytes))

\* lines 1025-1053: the chunks of the slot are combined into a new buffer,
\* their own buffers are freed, and the new buffer becomes the first chunk
Consolidate(s, pos) ==
    LET d == s.var.dynamicBytes.v[pos + 1]
        n == d.numChunks
        bytes == ValidBytes(d.chunks, n)
        s1 == FreeChunkPtrs(Malloced(s), SubSeq(d.chunks, 1, n), 1)
        s2 == [s1 EXCEPT !.var.dynamicBytes.v[pos + 1] =
                 [d EXCEPT
                    !.numChunks = 1,
                    !.chunks = [j \in 1..Len(d.chunks) |->
                                  IF j = 1
                                  THEN [ptr |-> s.nextId, length |-> Len(bytes),
                                        allocatedLength |->
                                            TotalAllocatedLength(d.chunks, n),
                                        bytes |-> bytes]
                                  ELSE IF j <= n THEN EmptyChunk
                                  ELSE d.chunks[j]]]]
    IN  IF Hit(s)
        THEN [Failing(s, "NO_MEMORY allocate chunk") EXCEPT
                 !.var.externalData.v[pos + 1].ptr = NullPtr]
        ELSE ExposeBytes(s2, pos, s.nextId, Len(bytes))

\* faulty variant: a single chunk is copied to a new buffer like several are
dpiVar__setBytesFromDynamicBytes_AlwaysCopy(s, pos) ==
    LET d == s.var.dynamicBytes.v[pos + 1]
    IN  IF d.allocatedChunks = 0 THEN Fail(s, "NULL_DEREFERENCE")
        ELSE Consolidate(s, pos)

\* lines 1025-1049 on a slot with no chunk array: a buffer of no bytes is
\* allocated for the cell, the chunk count is set to 1 at line 1048, and the
\* store to the first entry at line 1049 goes through a null pointer and ends
\* the program
ConsolidateNothing(s, pos) ==
    IF Hit(s)
    THEN [Failing(s, "NO_MEMORY allocate chunk") EXCEPT
             !.var.externalData.v[pos + 1].ptr = NullPtr]
    ELSE Fail([ExposeBytes(Malloced(s), pos, s.nextId, 0) EXCEPT
                  !.var.dynamicBytes.v[pos + 1].numChunks = 1],
              "NULL_DEREFERENCE")

\* lines 1013-1054
dpiVar__setBytesFromDynamicBytes(s, pos) ==
    LET d == s.var.dynamicBytes.v[pos + 1]
    IN  IF d.numChunks = 1
        THEN ExposeBytes(s, pos, d.chunks[1].ptr, d.chunks[1].length)
        ELSE IF d.allocatedChunks = 0 THEN ConsolidateNothing(s, pos)
        ELSE Consolidate(s, pos)

\* lines 1062-1096: the large object of the slot is read into the first chunk
dpiVar__setBytesFromLob(s, pos) ==
    LET lob == s.var.references.v[pos + 1]
        content == s.handles[lob].content
        length == Len(content)
        lengthInBytes ==
            IF s.var.type = "CLOB" THEN length * s.env.maxBytesPerCharacter
            ELSE IF s.var.type = "NCLOB"
            THEN length * s.env.nmaxBytesPerCharacter
            ELSE length
    IN  IF Hit(s) THEN Failing(s, "get LOB length")
        ELSE IF lengthInBytes >= UINT32_MOD THEN Fail(Tick(s), "NOT_SUPPORTED")
        ELSE LET s1 == dpiVar__allocateDynamicBytes(Tick(s), pos, lengthInBytes)
                 ptr == s1.var.dynamicBytes.v[pos + 1].chunks[1].ptr
             IN  IF ~Ok(s1) THEN s1
                 ELSE IF length > 0 /\ Hit(s1) THEN Failing(s1, "read bytes")
                 ELSE ExposeBytes(
                        [(IF length > 0 THEN Tick(s1) ELSE s1) EXCEPT
                            !.var.dynamicBytes.v[pos + 1].chunks[1].bytes =
                                content,
                            !.var.dynamicBytes.v[pos + 1].chunks[1].length =
                                length],
                        pos, ptr, length)

\* lines 771-777: the slot is null; an object's indicator is the object's own
SlotIsNull(s, pos) ==
    IF s.var.objectIndicator.id = 0
    THEN s.var.indicator.v[pos + 1] = OCI_IND_NULL
    ELSE IF s.var.objectIndicator.v[pos + 1] > 0
    THEN s.handles[s.var.objectIndicator.v[pos + 1]].ind = OCI_IND_NULL
    ELSE TRUE

\* a conversion of the dpiData family that can fail
Convert(s, what) == IF Hit(s) THEN Failing(s, what) ELSE Tick(s)

\* the scalar or the handle of the value array goes to the external cell
CopyOut(s, pos) ==
    [s EXCEPT !.var.externalData.v[pos + 1].h = s.var.data.v[pos + 1]]

\* lines 877-886: an object slot without an object gets one
GetObject(s, pos) ==
    LET h  == NextHandle(s)
        s1 == IF s.var.references.v[pos + 1] # 0 THEN s
              ELSE IF Hit(s)
              THEN [Failing(s, "object allocate") EXCEPT
                       !.var.externalData.v[pos + 1].h = 0]
              ELSE [NewHandle(Tick(s), "OBJECT") EXCEPT
                       !.var.references.v[pos + 1] = h]
    IN  IF ~Ok(s1) THEN s1
        ELSE [s1 EXCEPT !.var.externalData.v[pos + 1].h =
                            s1.var.references.v[pos + 1]]

\* lines 797-896: the value of a slot that is not null, by native type
TransformOut(s, pos) ==
    LET t == s.var.type
        n == s.var.nativeTypeNum
    IN  CASE n \in {"INT64", "UINT64"} /\ t = "NATIVE_INT" -> CopyOut(s, pos)
          [] n \in {"INT64", "UINT64"} /\ t = "NUMBER" ->
                Convert(s, "number as integer")
          [] n = "DOUBLE" /\ t = "NUMBER" -> Convert(s, "number as double")
          [] n = "DOUBLE" /\ t = "NATIVE_DOUBLE" -> CopyOut(s, pos)
          [] n = "DOUBLE" /\ t \in TimestampTypes ->
                Convert(s, "timestamp as double")
          [] n = "BYTES" /\ t \in {"VARCHAR", "NVARCHAR", "CHAR", "NCHAR",
                                   "ROWID", "RAW", "LONG_VARCHAR",
                                   "LONG_NVARCHAR", "LONG_RAW"} ->
                IF s.var.dynamicBytes.id # 0
                THEN dpiVar__setBytesFromDynamicBytes(s, pos)
                ELSE [s EXCEPT !.var.externalData.v[pos + 1].length =
                                   s.var.actualLength.v[pos + 1]]
          [] n = "BYTES" /\ t \in LobTypes -> dpiVar__setBytesFromLob(s, pos)
          [] n = "BYTES" /\ t = "NUMBER" -> Convert(s, "number as text")
          [] n = "FLOAT" -> CopyOut(s, pos)
          [] n = "TIMESTAMP" /\ t = "DATE" -> s
          [] n = "TIMESTAMP" /\ t # "DATE" -> Convert(s, "timestamp")
          [] n \in {"INTERVAL_DS", "INTERVAL_YM"} -> Convert(s, "interval")
          [] n = "OBJECT" -> GetObject(s, pos)
          [] n = "STMT" ->
                [s EXCEPT !.var.externalData.v[pos + 1].h =
                              s.var.references.v[pos + 1]]
          [] n = "BOOLEAN" -> CopyOut(s, pos)
          [] OTHER -> s

\* faulty variant: the return code is looked at before the null indicator
dpiVar__getValue_CodeFirst(s, pos) ==
    IF s.var.returnCode.id # 0 /\ s.var.returnCode.v[pos + 1] # 0
    THEN [Fail(s, "COLUMN_FETCH") EXCEPT
             !.out = [pos |-> pos, code |-> s.var.returnCode.v[pos + 1]]]
    ELSE LET isNull == SlotIsNull(s, pos)
             s1 == [s EXCEPT !.var.externalData.v[pos + 1].isNull = isNull]
         IN  IF isNull THEN s1 ELSE TransformOut(s1, pos)

\* lines 765-897, with the external cell of the slot as the cell to fill;
\* the error carries the position and the return code
dpiVar__getValue(s, pos) ==
    LET isNull == SlotIsNull(s, pos)
        s1 == [s EXCEPT !.var.externalData.v[pos + 1].isNull = isNull]
    IN  IF isNull THEN s1
        ELSE IF s.var.returnCode.id # 0 /\ s.var.returnCode.v[pos + 1] # 0
        THEN [Fail(s1, "COLUMN_FETCH") EXCEPT
                 !.out = [pos |-> pos, code |-> s.var.returnCode.v[pos + 1]]]
        ELSE TransformOut(s1, pos)

-----------------------------------------------------------------------------
(* dpiVar__setValue: the external cell goes to the native-facing arrays *)

\* lines 1321-1334: a null cell; an object slot without an instance gets a
\* null object, since the native layer needs one
SetNull(s, pos) ==
    LET s1 == [s EXCEPT !.var.indicator.v[pos + 1] = OCI_IND_NULL]
        h  == NextHandle(s1)
    IN  IF ~(s.var.objectIndicator.id # 0 /\ s.var.data.v[pos + 1] = NULLH)
        THEN s1
        ELSE IF Hit(s1) THEN Failing(s1, "create object")
        ELSE LET s2 == NewHandle(Tick(s1), "OBJECT")
             IN  [s2 EXCEPT !.handles[h].ind = OCI_IND_NULL,
                            !.var.references.v[pos + 1] = h,
                            !.var.externalData.v[pos + 1].h = h,
                            !.var.data.v[pos + 1] = h,
                            !.var.objectIndicator.v[pos + 1] = h]

\* the scalar of the external cell goes to the value array
CopyIn(s, pos) ==
    [s EXCEPT !.var.data.v[pos + 1] = s.var.externalData.v[pos + 1].h]

\* lines 1336-1403: a cell that is not null, by native type
TransformIn(s, pos) ==
    LET t == s.var.type
        n == s.var.nativeTypeNum
    IN  CASE n \in {"INT64", "UINT64"} /\ t = "NATIVE_INT" -> CopyIn(s, pos)
          [] n \in {"INT64", "UINT64"} /\ t = "NUMBER" ->
                Convert(s, "number from integer")
          [] n = "FLOAT" -> CopyIn(s, pos)
          [] n = "DOUBLE" /\ t = "NATIVE_DOUBLE" -> CopyIn(s, pos)
          [] n = "DOUBLE" /\ t = "NUMBER" -> Convert(s, "number from double")
          [] n = "DOUBLE" /\ t \in TimestampTypes ->
                Convert(s, "timestamp from double")
          [] n = "BYTES" /\ t = "NUMBER" -> Convert(s, "number from text")
          [] n = "BYTES" /\ t # "NUMBER" ->
                IF s.var.returnCode.id # 0
                THEN [s EXCEPT !.var.returnCode.v[pos + 1] = 0]
                ELSE s
          [] n = "TIMESTAMP" /\ t = "DATE" -> s
          [] n = "TIMESTAMP" /\ t \in TimestampTypes ->
                Convert(s, "timestamp")
          [] n \in {"INTERVAL_DS", "INTERVAL_YM"} -> Convert(s, "interval")
          [] n = "BOOLEAN" -> CopyIn(s, pos)
          [] OTHER -> s

\* lines 1312-1404, with the external cell of the slot as the source
dpiVar__setValue(s, pos) ==
    IF s.var.externalData.v[pos + 1].isNull THEN SetNull(s, pos)
    ELSE TransformIn(
            [s EXCEPT !.var.indicator.v[pos + 1] = OCI_IND_NOTNULL], pos)

-----------------------------------------------------------------------------
(* dpiVar__defineCallback: one more chunk for the piece the native layer has *)

\* lines 443-452: the chunk entry gets a buffer of one quantum, if it has none
EnsureChunkBuffer(s, iter, j) ==
    LET c == s.var.dynamicBytes.v[iter + 1].chunks[j]
        s1 == [s EXCEPT !.var.dynamicBytes.v[iter + 1].chunks[j]
                             .allocatedLength = DPI_DYNAMIC_BYTES_CHUNK_SIZE]
    IN  IF c.ptr # 0 THEN s
        ELSE IF Hit(s1) THEN Failing(s1, "NO_MEMORY allocate buffer")
        ELSE [Malloced(s1) EXCEPT
                 !.var.dynamicBytes.v[iter + 1].chunks[j].ptr = s1.nextId]

\* lines 454-461: the chunk is counted and handed to the native layer
ReturnChunk(s, iter, j) ==
    LET c == s.var.dynamicBytes.v[iter + 1].chunks[j]
    IN  [s EXCEPT
           !.var.dynamicBytes.v[iter + 1].numChunks = @ + 1,
           !.var.dynamicBytes.v[iter + 1].chunks[j].length = c.allocatedLength,
           !.out = [bufp |-> [blk |-> c.ptr, off |-> 0, h |-> 0],
                    alenp |-> [blk |-> s.var.dynamicBytes.v[iter + 1].chunksId,
                               off |-> j - 1],
                    indp |-> [blk |-> s.var.indicator.id, off |-> iter],
                    rcodep |-> NullPtr]]

\* lines 430-462
dpiVar__defineCallback(s, iter) ==
    LET d  == s.var.dynamicBytes.v[iter + 1]
        j  == d.numChunks + 1
        s1 == IF d.numChunks = d.allocatedChunks
              THEN dpiVar__allocateChunks(s, iter) ELSE s
        s2 == Then(s1, LAMBDA x : EnsureChunkBuffer(x, iter, j))
    IN  Then(s2, LAMBDA x : ReturnChunk(x, iter, j))

-----------------------------------------------------------------------------
(* dpiVar__copyData, dpiVar_copyData *)

\* a byte string of the given length with the known bytes first
Pad(bytes, length) ==
    [k \in 1..length |-> IF k <= Len(bytes) THEN bytes[k] ELSE UNINIT]

\* the bytes a pointer into the variable's buffers points at
BytesAt(s, ptr) ==
    LET v == s.var
        hit == { c \in UNION { { v.dynamicBytes.v[i].chunks[j] :
                                   j \in 1..Len(v.dynamicBytes.v[i].chunks) } :
                                 i \in 1..Len(v.dynamicBytes.v) } :
                   c.ptr = ptr.blk }
    IN  IF ptr.blk = 0 THEN << >>
        ELSE IF ptr.blk = v.tempBuffer.id
        THEN v.tempBuffer.v[ptr.off \div TempBufferSize(s) + 1]
        ELSE IF ptr.blk = v.data.id /\ v.sizeInBytes > 0
        THEN v.data.v[ptr.off \div v.sizeInBytes + 1]
        ELSE IF hit # {} THEN (CHOOSE c \in hit : TRUE).bytes
        ELSE << >>

\* lines 386-419
dpiVar__copyData(s, pos, sourceData) ==
    LET s1 == [s EXCEPT !.var.externalData.v[pos + 1].isNull =
                            sourceData.isNull]
        n  == s.var.nativeTypeNum
    IN  IF sourceData.isNull THEN s1
        ELSE CASE n = "BYTES" ->
                    dpiVar__setFromBytes(s1, pos,
                        Pad(BytesAt(s, sourceData.ptr), sourceData.length))
               [] n = "LOB" -> dpiVar__setFromLob(s1, pos, sourceData.h)
               [] n = "OBJECT" -> dpiVar__setFromObject(s1, pos, sourceData.h)
               [] n = "STMT" -> dpiVar__setFromStmt(s1, pos, sourceData.h)
               [] n = "ROWID" -> dpiVar__setFromRowid(s1, pos, sourceData.h)
               [] OTHER ->
                    [s1 EXCEPT !.var.externalData.v[pos + 1] = sourceData]

\* faulty variant: the position in the source is not checked
dpiVar_copyData_SourceUnchecked(s, pos, sourceVar, sourcePos) ==
    LET s1 == dpiVar__checkArraySize(s, pos)
    IN  IF ~Ok(s1) THEN s1
        ELSE IF ~sourceVar.alive THEN Fail(s, "INVALID_HANDLE")
        ELSE IF s.var.nativeTypeNum # sourceVar.nativeTypeNum
        THEN Fail(s, "NOT_SUPPORTED")
        ELSE dpiVar__copyData(s, pos,
                sourceVar.externalData.v[
                    IF sourcePos < sourceVar.maxArraySize
                    THEN sourcePos + 1 ELSE 1])

\* lines 1457-1477
dpiVar_copyData(s, pos, sourceVar, sourcePos) ==
    LET s1 == dpiVar__checkArraySize(s, pos)
    IN  IF ~Ok(s1) THEN s1
        ELSE IF ~sourceVar.alive THEN Fail(s, "INVALID_HANDLE")
        ELSE IF sourcePos >= sourceVar.maxArraySize
        THEN Fail(s, "ARRAY_SIZE_EXCEEDED")
        ELSE IF s.var.nativeTypeNum # sourceVar.nativeTypeNum
        THEN Fail(s, "NOT_SUPPORTED")
        ELSE dpiVar__copyData(s, pos, sourceVar.externalData.v[sourcePos + 1])

-----------------------------------------------------------------------------
(* dpiVar_setNumElementsInArray, dpiVar_getNumElementsInArray *)

\* faulty variant: the count is stored before it is checked
dpiVar_setNumElementsInArray_StoreFirst(s, numElements) ==
    LET s1 == [s EXCEPT !.var.actualArraySize = numElements]
    IN  IF numElements > s.var.maxArraySize
        THEN Fail(s1, "ARRAY_SIZE_EXCEEDED")
        ELSE s1

\* faulty variant: the count is stored without being checked
dpiVar_setNumElementsInArray_Unchecked(s, numElements) ==
    [s EXCEPT !.var.actualArraySize = numElements]

\* lines 1664-1675
dpiVar_setNumElementsInArray(s, numElements) ==
    IF numElements > s.var.maxArraySize THEN Fail(s, "ARRAY_SIZE_EXCEEDED")
    ELSE [s EXCEPT !.var.actualArraySize = numElements]

\* lines 1508-1516
dpiVar_getNumElementsInArray(s) == [s EXCEPT !.out = s.var.actualArraySize]

-----------------------------------------------------------------------------
(* The caller: the state the program starts in and the calls it makes *)

\* handles the caller created before the variable: two of each kind, the
\* second object being a null object
CallerHandles ==
    << Handle("CONN", 9, 1), Handle("OBJTYPE", 1, 1),
       Handle("LOB", 1, 1), Handle("LOB", 1, 1),
       Handle("STMT", 1, 1), Handle("STMT", 1, 1),
       Handle("ROWID", 1, 1), Handle("ROWID", 1, 1),
       Handle("OBJECT", 1, 1),
       [Handle("OBJECT", 1, 1) EXCEPT !.ind = OCI_IND_NULL] >>

Envs ==
    { [maxBytesPerCharacter |-> 1, nmaxBytesPerCharacter |-> 2, utf16 |-> FALSE],
      [maxBytesPerCharacter |-> 2, nmaxBytesPerCharacter |-> 2, utf16 |-> TRUE] }

\* no statement is executing
NoExec ==
    [active |-> FALSE, rows |-> 0, index |-> 0, cap0 |-> 0, regrows |-> 0,
     regrowAt |-> {}]

Init ==
    /\ var = NoVar
    /\ heap = {}
    /\ nextId = 1
    /\ handles = CallerHandles
    /\ oci = [descArrays |-> 0, badDescFree |-> 0, badFree |-> 0, badRef |-> 0]
    /\ env \in Envs
    /\ exec = NoExec
    /\ last = [op |-> "init", err |-> ""]
    /\ ops = 0

\* the program state after an operation becomes the next state
Commit(s) ==
    /\ var' = s.var
    /\ heap' = s.heap
    /\ nextId' = s.nextId
    /\ handles' = s.handles
    /\ oci' = s.oci
    /\ env' = s.env

\* the program state with the f-th fallible call of the operation failing
Inject(f) == [State EXCEPT !.fail = f]

\* the (type, native type) pairs dpiVar__allocate accepts
SupportedPairs ==
    { <<t.oracleTypeNum, n>> : t \in dpiAllOracleTypes, n \in NativeTypeNums }
    \cap { p \in OracleTypeNums \X NativeTypeNums :
             \/ p[2] = dpiOracleType__getFromNum(p[1]).defaultNativeTypeNum
             \/ dpiVar__validateTypes(dpiOracleType__getFromNum(p[1]), p[2]) }

Args(t, n, cap, size, bytes, arr, ot) ==
    [conn |-> ConnH, oracleTypeNum |-> t, nativeTypeNum |-> n,
     maxArraySize |-> cap, size |-> size, sizeIsBytes |-> bytes,
     isArray |-> arr, objType |-> ot]

\* the sizes asked for: the default, and one past the basic buffer
Sizes == {0, DPI_MAX_BASIC_BUFFER_SIZE + 1}

\* argument lists with a supported pair, each with every failure injected
GoodArgs ==
    { Args(p[1], p[2], cap, size, bytes, arr, ot) :
        p \in SupportedPairs, cap \in 1..MaxCap, size \in Sizes,
        bytes \in BOOLEAN, arr \in BOOLEAN, ot \in {0, ObjTypeH, 3} }

\* argument lists over every pair, known type or not, and capacity 0
AnyArgs ==
    { Args(t, n, cap, 0, TRUE, arr, ot) :
        t \in OracleTypeNums \cup {"INVALID"}, n \in NativeTypeNums,
        cap \in 0..MaxCap, arr \in BOOLEAN, ot \in {0, ObjTypeH} }

Allocate(a, f) ==
    /\ LET s == dpiVar__allocate(Inject(f), a)
       IN  /\ Commit(s)
           /\ last' = [op |-> "allocate", err |-> s.err, args |-> a,
                       fail |-> f, out |-> s.var.blk]
    /\ UNCHANGED <<exec, ops>>

\* dpiVar_release by the holder of the last reference: dpiVar__free
Release ==
    /\ var.alive
    /\ ~exec.active
    /\ last.err # "NULL_DEREFERENCE"
    /\ LET s == dpiVar__free(State)
       IN  /\ Commit(s)
           /\ last' = [op |-> "free", err |-> "",
                       args |-> IF last.op = "allocate" THEN last
                                ELSE [op |-> last.op, err |-> last.err,
                                      chunks |-> ChunkBlocks(var)]]
    /\ UNCHANGED <<exec, ops>>

\* capacities and element sizes whose product is small, just within the
\* limit of the value array, just above it, and above the word
BigArgs ==
    { Args("RAW", "BYTES", c[1], c[2], TRUE, FALSE, 0) :
        c \in { <<1, 3>>, <<2, DPI_MAX_BASIC_BUFFER_SIZE>>,
                <<16, DPI_MAX_BASIC_BUFFER_SIZE>>, <<129, 127>>, <<128, 128>>,
                <<17, DPI_MAX_BASIC_BUFFER_SIZE>>,
                <<33, DPI_MAX_BASIC_BUFFER_SIZE>>,
                <<UINT32_MOD - 1, DPI_MAX_BASIC_BUFFER_SIZE>> } }
    \cup { Args("NATIVE_INT", "INT64", cap, 0, TRUE, FALSE, 0) :
             cap \in { 1, (INT_MAX + 1) \div 8, UINT32_MOD \div 8,
                       UINT32_MOD \div 8 + 1 } }

\* allocations of fixed variables of every size of value array
NextSize ==
    \/ /\ last.op = "init"
       /\ \E a \in BigArgs, f \in 0..MaxFail : Allocate(a, f)
    \/ Release

SpecSize == Init /\ [][NextSize]_vars

\* character data sized by a count of characters: counts within the basic
\* buffer, around its limit in bytes, and the largest counts of the word
CharArgs ==
    { Args(t, "BYTES", cap, size, FALSE, FALSE, 0) :
        t \in {"VARCHAR", "NVARCHAR", "CHAR", "NCHAR"}, cap \in {1, 2},
        size \in { 1, DPI_MAX_BASIC_BUFFER_SIZE \div 2,
                   DPI_MAX_BASIC_BUFFER_SIZE \div 2 + 1,
                   DPI_MAX_BASIC_BUFFER_SIZE, DPI_MAX_BASIC_BUFFER_SIZE + 1,
                   UINT32_MOD \div 2, UINT32_MOD \div 2 + 1,
                   UINT32_MOD - 1 } }

\* allocations of variables of characters of every count
NextChars ==
    \/ /\ last.op = "init"
       /\ \E a \in CharArgs, f \in 0..MaxFail : Allocate(a, f)
    \/ Release

SpecChars == Init /\ [][NextChars]_vars

\* numbers transferred as text: capacities whose scratch buffer is small,
\* just within the word, just above it in either encoding, and the largest
\* capacities the value array allows
NumberArgs ==
    { Args("NUMBER", "BYTES", cap, 0, TRUE, FALSE, 0) :
        cap \in { 1, 2,
                  (UINT32_MOD - 1) \div (2 * DPI_NUMBER_AS_TEXT_CHARS),
                  (UINT32_MOD - 1) \div (2 * DPI_NUMBER_AS_TEXT_CHARS) + 1,
                  (UINT32_MOD - 1) \div DPI_NUMBER_AS_TEXT_CHARS,
                  (UINT32_MOD - 1) \div DPI_NUMBER_AS_TEXT_CHARS + 1,
                  INT_MAX \div 22, INT_MAX \div 22 + 1 } }

\* allocations of variables of numbers as text of every capacity
NextNumber ==
    \/ /\ last.op = "init"
       /\ \E a \in NumberArgs, f \in 0..MaxFail : Allocate(a, f)
    \/ Release

SpecNumber == Init /\ [][NextNumber]_vars

NextAlloc ==
    \/ /\ last.op = "init"
       /\ \/ \E a \in GoodArgs, f \in 0..MaxFail : Allocate(a, f)
          \/ \E a \in AnyArgs : Allocate(a, 0)
    \/ Release

SpecAlloc == Init /\ [][NextAlloc]_vars

-----------------------------------------------------------------------------
(* The life of a variable: the calls made on it once it is allocated *)

\* what the caller saw before the call
Pre == [var |-> var, handles |-> handles, heap |-> heap, nextId |-> nextId]

\* a variable whose conversion, resize, fetch or late growth failed is left
\* without some of its arrays; its holder gets the error and only releases it
Broken ==
    /\ last.op \in {"outBind", "convertToLob", "resize", "define"}
    /\ last.err # ""

\* a store through a null pointer ended the program
Crashed == last.err = "NULL_DEREFERENCE"

\* the caller may make one more call on the variable
Started == var.alive /\ ~exec.active /\ ~Broken /\ ~Crashed /\ ops < MaxOps

\* the failures worth injecting into an operation: none (0), and one for each
\* fallible call the operation makes when none fails, up to MaxFail;
\* s is the state the operation leaves when started with Inject(MaxFail)
FailureChoices(s) == 0..(MaxFail - s.fail)

\* the kinds of variable followed through their life:
\* <<type, native type, size, object type>>
LifeTypes ==
    { <<"VARCHAR", "BYTES", 3, 0>>,
      <<"VARCHAR", "BYTES", DPI_MAX_BASIC_BUFFER_SIZE + 1, 0>>,
      <<"NVARCHAR", "BYTES", DPI_MAX_BASIC_BUFFER_SIZE + 1, 0>>,
      <<"NCHAR", "BYTES", DPI_MAX_BASIC_BUFFER_SIZE + 1, 0>>,
      <<"RAW", "BYTES", DPI_MAX_BASIC_BUFFER_SIZE + 1, 0>>,
      <<"NUMBER", "BYTES", 0, 0>>,
      <<"NATIVE_INT", "INT64", 0, 0>>,
      <<"TIMESTAMP", "TIMESTAMP", 0, 0>>,
      <<"CLOB", "LOB", 0, 0>>,
      <<"STMT", "STMT", 0, 0>>,
      <<"ROWID", "ROWID", 0, 0>>,
      <<"OBJECT", "OBJECT", 0, ObjTypeH>> }

\* the variables with a handle in every slot
RefTypes == { c \in LifeTypes : c[2] \in {"LOB", "STMT", "ROWID", "OBJECT"} }

\* the types whose buffers depend on the environment's encoding (the size is
\* given in bytes, so only the text form of numbers does)
EncodingSensitive == { "NUMBER" }

\* under the UTF-16 environment only the types that depend on it are followed
LifeArgsWith(types, caps) ==
    { Args(c[1], c[2], cap, c[3], TRUE, FALSE, c[4]) :
        c \in { x \in types : env.utf16 => x[1] \in EncodingSensitive },
        cap \in caps }

LifeArgs(types) == LifeArgsWith(types, 1..MaxCap)

\* dpiConn_newVar with one of the capacities given
CreateWith(types, caps) ==
    /\ last.op = "init"
    /\ \E a \in LifeArgsWith(types, caps) : Allocate(a, 0)

\* dpiConn_newVar: the variable the rest of the behaviour is about
Create(types) == CreateWith(types, 1..MaxCap)

\* the values written: empty, shorter than a chunk, longer than a chunk
ByteValues == { << >>, <<1, 2, 1>>, <<1, 2, 2, 1, 1>> }

\* the element sizes asked of dpiVar_resize
ResizeSizes == { 2, 8, INT_MAX }

\* the positions tried: every slot and the first position past the last slot
\* when the call is of the variable's native type, else one position
PositionsToTry(nativeTypeNum) ==
    IF var.nativeTypeNum = nativeTypeNum THEN 0..var.maxArraySize ELSE {0}

\* the handles tried: the caller's handles of the kind, a handle of another
\* kind, and the handle the slot holds
HandlesToTry(nativeTypeNum, pos) ==
    { h \in 1..Len(CallerHandles) :
        handles[h].kind = HandleKind(nativeTypeNum) }
    \cup {ObjTypeH}
    \cup (IF var.nativeTypeNum = nativeTypeNum /\ pos < var.maxArraySize
          THEN {var.references.v[pos + 1]} \ {0} ELSE {})

\* the public write of a handle for the native type given
dpiVar_setFrom(s, pos, h, nativeTypeNum) ==
    CASE nativeTypeNum = "LOB" -> dpiVar_setFromLob(s, pos, h)
      [] nativeTypeNum = "OBJECT" -> dpiVar_setFromObject(s, pos, h)
      [] nativeTypeNum = "ROWID" -> dpiVar_setFromRowid(s, pos, h)
      [] nativeTypeNum = "STMT" -> dpiVar_setFromStmt(s, pos, h)

\* a public write of a handle at one of the positions given, with the
\* handles tried
SetFromHandleAt(nativeTypeNum, positions) ==
    /\ Started
    /\ \E pos \in positions :
         \E h \in HandlesToTry(nativeTypeNum, pos) :
            LET s == dpiVar_setFrom(State, pos, h, nativeTypeNum)
            IN  /\ Commit(s)
                /\ last' = [op |-> "setFrom", native |-> nativeTypeNum,
                            pos |-> pos, h |-> h, err |-> s.err, pre |-> Pre]
    /\ ops' = ops + 1
    /\ UNCHANGED exec

\* a public write of a handle, with the positions and handles tried
SetFromHandle(nativeTypeNum) ==
    SetFromHandleAt(nativeTypeNum, PositionsToTry(nativeTypeNum))

SetFromLob == SetFromHandle("LOB")
SetFromObject == SetFromHandle("OBJECT")
SetFromRowid == SetFromHandle("ROWID")
SetFromStmt == SetFromHandle("STMT")

\* dpiVar_setFromBytes, at one of the positions and with the values given
SetFromBytesAt(values, positions) ==
    /\ Started
    /\ \E pos \in positions :
         \E value \in IF var.nativeTypeNum = "BYTES" THEN values
                      ELSE {<< >>} :
          \E f \in FailureChoices(
                     dpiVar_setFromBytes(Inject(MaxFail), pos, value)) :
            LET s == dpiVar_setFromBytes(Inject(f), pos, value)
            IN  /\ Commit(s)
                /\ last' = [op |-> "setFromBytes", pos |-> pos,
                            value |-> value, err |-> s.err, pre |-> Pre]
    /\ ops' = ops + 1
    /\ UNCHANGED exec

\* dpiVar_setFromBytes, with the positions tried and the values given
SetFromBytesOf(values) == SetFromBytesAt(values, PositionsToTry("BYTES"))

SetFromBytes == SetFromBytesOf(ByteValues)

\* dpiVar_resize
Resize ==
    /\ Started
    /\ \E size \in IF var.nativeTypeNum = "BYTES" THEN ResizeSizes ELSE {2} :
         \E f \in FailureChoices(dpiVar_resize(Inject(MaxFail), size)) :
            LET s == dpiVar_resize(Inject(f), size)
            IN  /\ Commit(s)
                /\ last' = [op |-> "resize", size |-> size, err |-> s.err,
                            pre |-> Pre]
    /\ ops' = ops + 1
    /\ UNCHANGED exec

\* the statement converts a dynamic bytes variable bound to PL/SQL; the
\* conversion counts as cost operations of the caller
ConvertToLobWith(cost) ==
    /\ Started
    /\ var.isDynamic /\ var.nativeTypeNum = "BYTES"
    /\ \E f \in FailureChoices(dpiVar__convertToLob(Inject(MaxFail))) :
            LET s == dpiVar__convertToLob(Inject(f))
            IN  /\ Commit(s)
                /\ last' = [op |-> "convertToLob", err |-> s.err, pre |-> Pre]
    /\ ops' = ops + cost
    /\ UNCHANGED exec

ConvertToLob == ConvertToLobWith(1)

\* the statement prepares the variable before each fetch; the preparation
\* counts as cost operations of the caller
PreFetchWith(cost) ==
    /\ var.alive /\ ~exec.active /\ ~Broken /\ ~Crashed
    /\ ops + cost <= MaxOps
    /\ var.requiresPreFetch \/ VarType(State).requiresPreFetch
    /\ \E f \in FailureChoices(dpiVar__extendedPreFetch(Inject(MaxFail))) :
            LET s == dpiVar__extendedPreFetch(Inject(f))
            IN  /\ Commit(s)
                /\ last' = [op |-> "preFetch", err |-> s.err, pre |-> Pre]
    /\ ops' = ops + cost
    /\ UNCHANGED exec

PreFetch == PreFetchWith(1)

\* the sizes asked of dpiVar__allocateDynamicBytes: none, within a quantum,
\* a quantum, more than a quantum, and the largest sizes of 32 bits
RequiredSizes ==
    { 0, 1, DPI_DYNAMIC_BYTES_CHUNK_SIZE, DPI_DYNAMIC_BYTES_CHUNK_SIZE + 1,
      UINT32_MOD - DPI_DYNAMIC_BYTES_CHUNK_SIZE, UINT32_MOD - 1 }

\* dpiVar__allocateDynamicBytes on a slot, as the writes of bytes and the
\* reads of large objects call it, for a value of size bytes
AllocateDynamicBytes ==
    /\ Started
    /\ var.isDynamic
    /\ \E pos \in 0..(var.maxArraySize - 1), size \in RequiredSizes :
         \E f \in FailureChoices(
                    dpiVar__allocateDynamicBytes(Inject(MaxFail), pos, size)) :
            LET s == dpiVar__allocateDynamicBytes(Inject(f), pos, size)
            IN  /\ Commit(s)
                /\ last' = [op |-> "allocateDynamicBytes", pos |-> pos,
                            size |-> size, err |-> s.err, pre |-> Pre]
    /\ ops' = ops + 1
    /\ UNCHANGED exec

\* the native layer asks for the input buffer of a slot; the callback
\* changes nothing and is not counted
InBindCallback ==
    /\ var.alive /\ ~exec.active /\ ~Broken /\ ~Crashed
    /\ \E index \in 0..(var.maxArraySize - 1) :
         LET s == dpiVar__inBindCallback(State, index)
         IN  /\ Commit(s)
             /\ last' = [op |-> "inBind", index |-> index, err |-> s.err,
                         out |-> s.out, pre |-> Pre]
    /\ UNCHANGED <<exec, ops>>

\* the statement starts an execute that returns rows through the variable
BeginExecute ==
    /\ Started
    /\ \E rows \in 1..MaxRows :
         /\ exec' = [NoExec EXCEPT !.active = TRUE, !.rows = rows,
                                   !.cap0 = var.maxArraySize]
         /\ last' = [op |-> "execute", err |-> "", rows |-> rows]
    /\ ops' = ops + 1
    /\ UNCHANGED <<var, heap, nextId, handles, oci, env>>

\* the native layer asks for the buffers of the next row: rows are asked for
\* one by one in increasing order, each with the same number of rows
OutBindCallback ==
    /\ exec.active
    /\ exec.index < exec.rows
    /\ \E f \in FailureChoices(
                dpiVar__outBindCallback(Inject(MaxFail), exec.index, exec.rows)) :
         LET s == dpiVar__outBindCallback(Inject(f), exec.index, exec.rows)
             regrow == s.var.indicator.id # var.indicator.id
         IN  /\ Commit(s)
             /\ last' = [op |-> "outBind", err |-> s.err,
                         index |-> exec.index, rows |-> exec.rows,
                         cap0 |-> exec.cap0, regrew |-> regrow,
                         out |-> s.out, pre |-> Pre]
             /\ exec' = [exec EXCEPT
                    !.index = @ + 1,
                    !.active = Ok(s),
                    !.regrows = IF regrow THEN @ + 1 ELSE @,
                    !.regrowAt = IF regrow THEN @ \cup {exec.index} ELSE @]
    /\ UNCHANGED ops

\* every row was asked for: the execute is over
EndExecute ==
    /\ exec.active
    /\ exec.index = exec.rows
    /\ exec' = NoExec
    /\ last' = [op |-> "executed", err |-> ""]
    /\ UNCHANGED <<var, heap, nextId, handles, oci, env, ops>>

\* the successful write of bytes a call follows, directly or with only the
\* statement's transfer of the cells in between; pos is -1 when there is none
NoWrite == [pos |-> -1, value |-> << >>, bound |-> FALSE]

Wrote ==
    IF last.op = "setFromBytes" /\ last.err = ""
    THEN [pos |-> last.pos, value |-> last.value, bound |-> FALSE]
    ELSE IF last.op = "setValue" /\ last.err = "" THEN last.wrote
    ELSE NoWrite

\* the statement transfers every cell before it executes: dpiVar__setValue
\* on each slot in turn, up to the first failure
RECURSIVE SetValues(_, _)
SetValues(s, i) ==
    IF ~Ok(s) \/ i >= s.var.maxArraySize THEN s
    ELSE SetValues(dpiVar__setValue(s, i), i + 1)

\* the transfer is part of the statement's work and is not counted
Bind ==
    /\ Started
    /\ last.op # "setValue"
    /\ \E f \in FailureChoices(SetValues(Inject(MaxFail), 0)) :
         LET s == SetValues(Inject(f), 0)
         IN  /\ Commit(s)
             /\ last' = [op |-> "setValue", err |-> s.err,
                         wrote |-> [Wrote EXCEPT !.bound = TRUE]]
    /\ UNCHANGED <<exec, ops>>

\* dpiVar__getValue on a slot
GetValue ==
    /\ Started
    /\ \E pos \in 0..(var.maxArraySize - 1) :
         \E f \in FailureChoices(dpiVar__getValue(Inject(MaxFail), pos)) :
            LET s == dpiVar__getValue(Inject(f), pos)
            IN  /\ Commit(s)
                /\ last' = [op |-> "getValue", pos |-> pos, err |-> s.err,
                            out |-> s.out, wrote |-> Wrote, pre |-> Pre]
    /\ ops' = ops + 1
    /\ UNCHANGED exec

\* the pieces the native layer delivers: a short one and a full one
Pieces == { <<1>>, <<2, 1, 1, 2>> }

\* the number of chunks in use over all slots
RECURSIVE ChunksInUse(_, _)
ChunksInUse(v, i) ==
    IF i = 0 THEN 0
    ELSE ChunksInUse(v, i - 1) + v.dynamicBytes.v[i].numChunks

\* the native layer stores a piece through the pointers the callback gave:
\* as many of the bytes as the length it was given allows, their number, and
\* an indicator that says not null
StorePiece(s, iter, piece) ==
    LET j == s.var.dynamicBytes.v[iter + 1].numChunks
        offered == s.var.dynamicBytes.v[iter + 1].chunks[j].length
        stored == SubSeq(piece, 1,
                         IF Len(piece) < offered THEN Len(piece) ELSE offered)
    IN  [s EXCEPT !.var.dynamicBytes.v[iter + 1].chunks[j].bytes = stored,
                  !.var.dynamicBytes.v[iter + 1].chunks[j].length = Len(stored),
                  !.var.indicator.v[iter + 1] = OCI_IND_NOTNULL]

\* the number of calls of the define callback for each slot in the fetch
\* that is under way
DefineCalls ==
    IF last.op = "define" THEN last.calls
    ELSE [i \in 1..var.maxArraySize |-> 0]

\* a fetch into a dynamic variable of at most limit pieces, each one of the
\* pieces given: the native layer asks for a buffer for each piece of a
\* value, row after row, before any row is read; the fetch starts on a new
\* variable or after the pre-fetch
DefineCallbackOf(pieces, limit) ==
    /\ var.alive /\ ~exec.active /\ ~Broken
    /\ last.op \in {"allocate", "preFetch", "define"}
    /\ var.isDynamic
    /\ ChunksInUse(var, var.maxArraySize) < limit
    /\ \E iter \in 0..(var.maxArraySize - 1) :
         /\ \A i \in (iter + 2)..var.maxArraySize :
               var.dynamicBytes.v[i].numChunks = 0
         /\ \E piece \in pieces :
             \E f \in FailureChoices(
                        dpiVar__defineCallback(Inject(MaxFail), iter)) :
               LET s == dpiVar__defineCallback(Inject(f), iter)
               IN  /\ Commit(IF Ok(s) THEN StorePiece(s, iter, piece) ELSE s)
                   /\ last' = [op |-> "define", iter |-> iter, err |-> s.err,
                               out |-> s.out,
                               calls |-> [DefineCalls EXCEPT ![iter + 1] = @ + 1],
                               pre |-> Pre]
    /\ UNCHANGED <<exec, ops>>

DefineCallback == DefineCallbackOf(Pieces, MaxPieces)

\* the return codes the native layer reports for a column value: none, and
\* the code of a truncated value
ReturnCodes == { 0, 1406 }

\* a fetch into a fixed slot: the native layer stores the value (for a
\* scalar, a number), its length, its indicator and, where the variable
\* tracks them, its return code
StoreColumn(s, pos, value, ind, code) ==
    LET s1 == [s EXCEPT !.var.indicator.v[pos + 1] = ind]
        s2 == IF s.var.actualLength.id # 0
              THEN [s1 EXCEPT !.var.actualLength.v[pos + 1] = Len(value)]
              ELSE s1
        s3 == IF s.var.returnCode.id # 0
              THEN [s2 EXCEPT !.var.returnCode.v[pos + 1] = code]
              ELSE s2
    IN  IF VarType(s).defaultNativeTypeNum = "BYTES"
        THEN [s3 EXCEPT !.var.data.v[pos + 1] = Overwrite(@, value)]
        ELSE [s3 EXCEPT !.var.data.v[pos + 1] = Len(value)]

NativeStore ==
    /\ Started
    /\ ~var.isDynamic /\ var.references.id = 0
    /\ \E pos \in 0..(var.maxArraySize - 1) :
         \E ind \in {OCI_IND_NULL, OCI_IND_NOTNULL}, code \in ReturnCodes :
            LET s == StoreColumn(State, pos, <<2, 1>>, ind, code)
            IN  /\ Commit(s)
                /\ last' = [op |-> "store", pos |-> pos, err |-> ""]
    /\ ops' = ops + 1
    /\ UNCHANGED exec

\* the variables data is copied from: the variable itself, a variable of
\* another native type, and a variable already released
SourceVars ==
    { var,
      [NoVar EXCEPT !.alive = TRUE, !.nativeTypeNum = "BOOLEAN",
                    !.maxArraySize = 1,
                    !.externalData = [id |-> 0, size |-> 1,
                                      v |-> <<EmptyData>>]],
      NoVar }

\* a variable of the target's native type whose one cell the caller filled:
\* five bytes in a buffer of its own, or a handle of another kind
ForeignSources ==
    { [NoVar EXCEPT !.alive = TRUE, !.nativeTypeNum = var.nativeTypeNum,
                    !.maxArraySize = 1,
                    !.externalData =
                        [id |-> 0, size |-> 1,
                         v |-> <<[EmptyData EXCEPT
                                     !.h = ObjTypeH, !.length = 5,
                                     !.ptr = [blk |-> UINT32_MOD,
                                              off |-> 0]]>>]] }

\* dpiVar_copyData from one of the source variables given
CopyDataFrom(sources) ==
    /\ Started
    /\ \E sourceVar \in sources :
        \E pos \in 0..var.maxArraySize, sourcePos \in 0..sourceVar.maxArraySize :
         \E f \in FailureChoices(
                    dpiVar_copyData(Inject(MaxFail), pos, sourceVar, sourcePos)) :
            LET s == dpiVar_copyData(Inject(f), pos, sourceVar, sourcePos)
            IN  /\ Commit(s)
                /\ last' = [op |-> "copyData", pos |-> pos,
                            sourcePos |-> sourcePos,
                            sourceCap |-> sourceVar.maxArraySize,
                            sourceAlive |-> sourceVar.alive,
                            err |-> s.err, pre |-> Pre]
    /\ ops' = ops + 1
    /\ UNCHANGED exec

CopyData == CopyDataFrom(SourceVars)

\* dpiVar_setNumElementsInArray, with counts up to one past the capacity
SetNumElementsInArray ==
    /\ Started
    /\ \E numElements \in 0..(var.maxArraySize + 1) :
         LET s == dpiVar_setNumElementsInArray(State, numElements)
         IN  /\ Commit(s)
             /\ last' = [op |-> "setNumElements", count |-> numElements,
                         err |-> s.err, pre |-> Pre]
    /\ ops' = ops + 1
    /\ UNCHANGED exec

\* dpiVar_getNumElementsInArray
GetNumElementsInArray ==
    /\ Started
    /\ LET s == dpiVar_getNumElementsInArray(State)
       IN  /\ Commit(s)
           /\ last' = [op |-> "getNumElements", out |-> s.out, err |-> s.err,
                       after |-> [op |-> last.op, err |-> last.err,
                                  count |-> IF last.op = "setNumElements"
                                            THEN last.count ELSE 0]]
    /\ ops' = ops + 1
    /\ UNCHANGED exec

\* a byte string of n bytes
Bytes(n) == [k \in 1..n |-> 1 + (k % 2)]

\* the values written to a variable of bytes: of length 0, 1, one quantum
\* less one, one quantum and several quanta
RoundTripValues ==
    { Bytes(0), Bytes(1), Bytes(DPI_DYNAMIC_BYTES_CHUNK_SIZE - 1),
      Bytes(DPI_DYNAMIC_BYTES_CHUNK_SIZE),
      Bytes(2 * DPI_DYNAMIC_BYTES_CHUNK_SIZE + 1) }

\* the values written to a number transferred as text: one longer than the
\* number's own size, and one longer than the text form in either encoding
TextValues ==
    { Bytes(1), Bytes(23), Bytes(DPI_NUMBER_AS_TEXT_CHARS + 1),
      Bytes(2 * DPI_NUMBER_AS_TEXT_CHARS + 1) }

SetFromBytesAnyLength ==
    SetFromBytesOf(IF var.tempBuffer.id # 0 THEN TextValues
                   ELSE RoundTripValues)

\* the variables of bytes: fixed, dynamic, and a number transferred as text
ByteTypes ==
    { <<"VARCHAR", "BYTES", 3, 0>>,
      <<"VARCHAR", "BYTES", DPI_MAX_BASIC_BUFFER_SIZE + 1, 0>>,
      <<"RAW", "BYTES", DPI_MAX_BASIC_BUFFER_SIZE + 1, 0>>,
      <<"NUMBER", "BYTES", 0, 0>> }

\* variables of bytes written by the caller, transferred and read back
NextBytes ==
    \/ Create(ByteTypes)
    \/ SetFromBytesAnyLength
    \/ Bind
    \/ GetValue
    \/ Release

SpecBytes == Init /\ [][NextBytes]_vars

\* the number of elements of an array, set and read back
NextArray ==
    \/ Create(LifeTypes)
    \/ SetNumElementsInArray
    \/ GetNumElementsInArray
    \/ Release

SpecArray == Init /\ [][NextArray]_vars

\* the variables read after a fetch: bytes with return codes, scalars
\* without, a number read as text, and objects
ReadTypes ==
    { <<"VARCHAR", "BYTES", 3, 0>>,
      <<"NATIVE_INT", "INT64", 0, 0>>,
      <<"NUMBER", "BYTES", 0, 0>>,
      <<"OBJECT", "OBJECT", 0, ObjTypeH>> }

\* fetches into fixed slots and the reads of the slots
NextRead ==
    \/ Create(ReadTypes)
    \/ NativeStore
    \/ SetFromObject
    \/ GetValue
    \/ Release

SpecRead == Init /\ [][NextRead]_vars

\* the first slot and the first position past the last slot
EndPositions == {0, var.maxArraySize}

\* the public writes of a slot, each on every kind of variable, in and past
\* the array
NextWrite ==
    \/ Create(LifeTypes)
    \/ SetFromHandleAt("LOB", EndPositions)
    \/ SetFromHandleAt("OBJECT", EndPositions)
    \/ SetFromHandleAt("ROWID", EndPositions)
    \/ SetFromHandleAt("STMT", EndPositions)
    \/ SetFromBytesAt(ByteValues, EndPositions)
    \/ CopyData
    \/ Release

SpecWrite == Init /\ [][NextWrite]_vars

\* variables of bytes written, reset before a fetch and bound as input
NextBind ==
    \/ Create(ByteTypes)
    \/ SetFromBytes
    \/ PreFetch
    \/ InBindCallback
    \/ Release

SpecBind == Init /\ [][NextBind]_vars

\* the dynamic variables of bytes
DynamicTypes == { c \in ByteTypes : c[3] > DPI_MAX_BASIC_BUFFER_SIZE }

\* the first chunk of a slot made ready for values of every size, on slots
\* new, sized before and fetched into
NextChunk ==
    \/ CreateWith(DynamicTypes, {1})
    \/ DefineCallback
    \/ AllocateDynamicBytes
    \/ Release

SpecChunk == Init /\ [][NextChunk]_vars

\* the dynamic variables of bytes of every character set form
LobSourceTypes == { c \in LifeTypes : c[3] > DPI_MAX_BASIC_BUFFER_SIZE }

\* dynamic variables written, fetched into, converted to large objects by
\* the statement and read back
NextLob ==
    \/ Create(LobSourceTypes)
    \/ SetFromBytes
    \/ Bind
    \/ ConvertToLobWith(0)
    \/ GetValue
    \/ Release

SpecLob == Init /\ [][NextLob]_vars

\* values of more than one quantum and of more than two
LongValues == { <<1, 2, 2, 1, 1>>, <<2, 1, 2, 1, 2, 1, 2, 1, 2>> }

\* the chunks of a slot over writes of values of growing length and the
\* fetches that follow them
NextLength ==
    \/ CreateWith(DynamicTypes, {1})
    \/ SetFromBytesOf(LongValues)
    \/ PreFetchWith(0)
    \/ DefineCallback
    \/ Release

SpecLength == Init /\ [][NextLength]_vars

\* dynamic variables written or fetched into, then converted to large objects
\* by the statement and released
NextConvert ==
    \/ CreateWith(LobSourceTypes, {1, 2})
    \/ SetFromBytesOf({<<1, 2, 1>>})
    \/ DefineCallback
    \/ ConvertToLob
    \/ Release

SpecConvert == Init /\ [][NextConvert]_vars

\* a dynamic variable written, fetched into in full pieces and read, in any
\* order
NextReuse ==
    \/ CreateWith(DynamicTypes, {1})
    \/ SetFromBytesOf({<<1, 2, 1>>})
    \/ PreFetchWith(0)
    \/ DefineCallbackOf({<<2, 1, 1, 2>>}, MaxPieces)
    \/ GetValue
    \/ Release

SpecReuse == Init /\ [][NextReuse]_vars

\* the number of elements of an array set before and after executes that
\* make the variable grow
NextGrow ==
    \/ Create(ReadTypes)
    \/ SetNumElementsInArray
    \/ GetNumElementsInArray
    \/ BeginExecute
    \/ OutBindCallback
    \/ EndExecute
    \/ Release

SpecGrow == Init /\ [][NextGrow]_vars

\* variables with a handle per slot, reset before a fetch, written, bound and
\* read
NextTracked ==
    \/ Create(RefTypes)
    \/ PreFetch
    \/ SetFromLob
    \/ SetFromObject
    \/ SetFromRowid
    \/ SetFromStmt
    \/ Bind
    \/ GetValue
    \/ Release

SpecTracked == Init /\ [][NextTracked]_vars

\* copies into the variable from itself, from a variable filled by the
\* caller, from a variable of another native type and from a released one
NextCopy ==
    \/ Create(LifeTypes)
    \/ SetFromBytesOf({<<1, 2, 1>>})
    \/ CopyDataFrom(SourceVars \cup ForeignSources)
    \/ Release

SpecCopy == Init /\ [][NextCopy]_vars

\* the pieces of a fetch that exhausts the chunk array of a slot
LongFetch == CHUNKS_INCREMENT + 1

\* long fetches, in full pieces, into a dynamic variable of one slot, new or
\* written and reset
NextDefine ==
    \/ CreateWith(DynamicTypes, {1})
    \/ SetFromBytes
    \/ PreFetch
    \/ DefineCallbackOf({<<2, 1, 1, 2>>}, LongFetch)
    \/ Release

SpecDefine == Init /\ [][NextDefine]_vars

\* fetches into a dynamic variable, piece by piece, and the reads of the rows
NextFetch ==
    \/ Create(DynamicTypes)
    \/ DefineCallback
    \/ GetValue
    \/ Release

SpecFetch == Init /\ [][NextFetch]_vars

\* variables with a handle per slot: pre-fetch and the writes of handles
NextRef ==
    \/ Create(RefTypes)
    \/ PreFetch
    \/ SetFromLob
    \/ SetFromObject
    \/ SetFromRowid
    \/ SetFromStmt
    \/ Release

SpecRef == Init /\ [][NextRef]_vars

\* executes that return rows through the variable
NextExec ==
    \/ Create(LifeTypes)
    \/ BeginExecute
    \/ OutBindCallback
    \/ EndExecute
    \/ Release

SpecExec == Init /\ [][NextExec]_vars

Next ==
    \/ Create(LifeTypes)
    \/ PreFetch
    \/ SetFromLob
    \/ SetFromObject
    \/ SetFromRowid
    \/ SetFromStmt
    \/ SetFromBytes
    \/ Resize
    \/ ConvertToLob
    \/ BeginExecute
    \/ OutBindCallback
    \/ EndExecute
    \/ Release

Spec == Init /\ [][Next]_vars

-----------------------------------------------------------------------------
(* Properties of allocation and release *)

\* the handles the variable created have all been released, and the caller's
\* handles (connection, object type, ...) have the counts they started with
RefCountsRestored ==
    \A h \in 1..Len(handles) :
        handles[h].refCount =
            IF h <= Len(CallerHandles) THEN CallerHandles[h].refCount ELSE 0

\* no heap block and no native descriptor array is held
NothingOutstanding == heap = {} /\ oci.descArrays = 0 /\ RefCountsRestored

AllocateFailed == last.op = "allocate" /\ last.err # ""

AllocatedThenFreed ==
    last.op = "free" /\ last.args.op = "allocate" /\ last.args.err = ""

\* C1: a successful dpiVar__allocate followed at once by dpiVar__free leaves
\* no resource outstanding: no heap block, no descriptor array, no reference
\* of a slot, and the connection and object type counts are as before
C1_AllocateFreeLeavesNothing == AllocatedThenFreed => NothingOutstanding

\* a cursor variable of two slots, with an object type given, was allocated
\* and freed
C1_Witness ==
    /\ AllocatedThenFreed
    /\ last.args.args.oracleTypeNum = "STMT"
    /\ last.args.args.maxArraySize = 2
    /\ last.args.args.objType = ObjTypeH
    /\ Len(handles) = Len(CallerHandles) + 2

\* errors of dpiVar__allocateBuffers and dpiVar__extendedInitialize
InitBuffersErrors ==
    { "NO_MEMORY allocate dynamic bytes", "NO_MEMORY allocate buffer",
      "ARRAY_SIZE_TOO_BIG", "NO_MEMORY allocate indicator",
      "NO_MEMORY allocate actual length", "NO_MEMORY allocate return code",
      "NO_MEMORY allocate temp buffer", "NO_MEMORY allocate external data",
      "NO_MEMORY allocate references", "allocate descriptors",
      "NO_MEMORY allocate object indicator", "NO_OBJECT_TYPE",
      "stmt allocate", "allocate statement", "lob allocate",
      "create temporary", "rowid allocate" }

\* C2: after a failure of buffer initialization the teardown releases what
\* was acquired and nothing else: no block is left, no block that is not
\* live is freed, and no array that OCIArrayDescriptorAlloc did not fill is
\* handed to OCIArrayDescriptorFree
C2_TeardownSkipsAbsent ==
    (AllocateFailed /\ last.err \in InitBuffersErrors) =>
        /\ heap = {}
        /\ oci.descArrays = 0
        /\ oci.badFree = 0
        /\ oci.badDescFree = 0

\* C3: when dpiVar__allocate fails the caller gets no variable, nothing that
\* was built is left, and the connection and object type counts are as
\* before the call
C3_FailedAllocateLeavesNothing ==
    AllocateFailed => last.out = 0 /\ ~var.alive /\ NothingOutstanding

\* the allocation of a cursor variable failed at the second slot, with the
\* first slot's statement and the object type reference already acquired
C3_Witness ==
    /\ AllocateFailed
    /\ last.err = "stmt allocate"
    /\ last.args.objType = ObjTypeH
    /\ Len(handles) = Len(CallerHandles) + 1

\* C4 as claimed: capacity 0 fails with ArraySizeZero whatever the other
\* arguments are
C4_Original ==
    (last.op = "allocate" /\ last.args.maxArraySize = 0) =>
        last.err = "ARRAY_SIZE_ZERO"

\* C4 amended: capacity 0 fails with ArraySizeZero when the type number is
\* one the catalog knows, and with the catalog's error otherwise; either way
\* nothing was ever allocated
C4_ZeroCapacityFails ==
    (last.op = "allocate" /\ last.args.maxArraySize = 0) =>
        /\ last.err = IF last.args.oracleTypeNum \in OracleTypeNums
                      THEN "ARRAY_SIZE_ZERO" ELSE "UNKNOWN_TYPE"
        /\ last.out = 0 /\ ~var.alive
        /\ nextId = 1 /\ heap = {}
        /\ handles = CallerHandles

\* capacity 0 with a type that cannot be in an array, asked for as an array
C4_Witness ==
    /\ last.op = "allocate"
    /\ last.args.maxArraySize = 0
    /\ last.args.oracleTypeNum = "CLOB"
    /\ last.args.isArray
    /\ last.err = "ARRAY_SIZE_ZERO"

-----------------------------------------------------------------------------
(* Properties of the storage of a variable *)

\* the variable has per-slot dynamic byte sets and a contiguous value array
HoldsBoth == var.dynamicBytes.id # 0 /\ var.data.id # 0

\* the variable went through dpiVar__convertToLob: a large-object type that
\* is transferred as bytes
Converted == var.type \in LobTypes /\ var.nativeTypeNum = "BYTES"

\* C5 as claimed: in no reachable state does a variable hold both the dynamic
\* byte sets and a contiguous value array
C5_Original == ~HoldsBoth

\* C5 amended: a variable holds both only after its conversion to a large
\* object, which keeps the dynamic byte sets next to the new array of
\* locators; a dynamic variable has no value array, and a variable that is
\* neither dynamic nor converted has no dynamic byte sets
C5_BothOnlyAfterConversion ==
    /\ HoldsBoth => Converted
    /\ var.isDynamic => var.data.id = 0
    /\ (~var.isDynamic /\ ~Converted) => var.dynamicBytes.id = 0

\* a dynamic variable with a value in its first slot was converted
C5_Witness ==
    /\ last.op = "convertToLob" /\ last.err = ""
    /\ last.pre.var.dynamicBytes.v[1].numChunks = 1
    /\ HoldsBoth

-----------------------------------------------------------------------------
(* Properties of the returning-bind callback *)

\* a successful callback of an execute that reported more rows than the
\* variable had slots
GrownCallback ==
    last.op = "outBind" /\ last.err = "" /\ last.rows > last.cap0

\* the block is the one the array arr lives in now
InArray(ptr, arr) == ptr.blk = arr.id /\ (arr.id = 0 \/ arr.id \in heap)

\* C6: when the rows reported at index 0 exceed the capacity, the buffers are
\* rebuilt with the reported count as capacity before any pointer is handed
\* out: the pointers of slot 0 and of every later slot lie in the arrays the
\* variable has now, the arrays are new, and after the callback at index 0
\* every slot is null in its indicator and in its external cell
C6_GrowsBeforePointers ==
    GrownCallback =>
        /\ var.maxArraySize = last.rows
        /\ InArray(last.out.bufp, var.data)
        /\ InArray(last.out.indp, var.indicator)
        /\ InArray(last.out.alenp, var.actualLength)
        /\ InArray(last.out.rcodep, var.returnCode)
        /\ last.out.bufp.h = IF var.type \in TimestampTypes \cup IntervalTypes
                                             \cup LobTypes
                             THEN var.data.v[last.index + 1] ELSE 0
        /\ last.index = 0 =>
             /\ var.indicator.id >= last.pre.nextId
             /\ var.externalData.id >= last.pre.nextId
             /\ var.indicator.v = [i \in 1..last.rows |-> OCI_IND_NULL]
             /\ Len(var.externalData.v) = last.rows
             /\ \A i \in 1..last.rows : var.externalData.v[i].isNull

\* a variable of two slots grew to four rows in the callback at index 0
C6_Witness ==
    /\ GrownCallback
    /\ last.index = 0
    /\ last.cap0 = 2 /\ last.rows = 4
    /\ var.type = "VARCHAR" /\ ~var.isDynamic

\* C7: in one execute the buffers are rebuilt only in the callback at index
\* 0, at most once, and exactly once when the rows reported exceed the
\* capacity the variable had when the execute began
C7_GrowsOnceAtIndexZero ==
    /\ exec.regrowAt \subseteq {0}
    /\ exec.regrows <= 1
    /\ (exec.active /\ exec.index >= 1) =>
          (exec.regrows = 1 <=> exec.rows > exec.cap0)

\* every row of an execute that began with two slots and reported four rows
\* has been asked for
C7_Witness ==
    /\ exec.active
    /\ exec.index = exec.rows
    /\ exec.cap0 = 2 /\ exec.rows = 4
    /\ exec.regrows = 1

-----------------------------------------------------------------------------
(* Properties of the references of the slots *)

\* a handle was written to a slot
SetDone == last.op = "setFrom" /\ last.err = ""

\* the handle the slot referenced before the write
OldRef == last.pre.var.references.v[last.pos + 1]

\* C8: writing a valid handle other than the one the slot references
\* releases the old reference once and takes one on the new handle: the old
\* handle's count is one less, the new handle's count is one more, the slot
\* references and publishes the new handle, and no other handle changes
C8_ReplaceReleasesOldAcquiresNew ==
    (SetDone /\ last.h # OldRef) =>
        /\ OldRef # 0 =>
             handles[OldRef].refCount = last.pre.handles[OldRef].refCount - 1
        /\ handles[last.h].refCount = last.pre.handles[last.h].refCount + 1
        /\ var.references.v[last.pos + 1] = last.h
        /\ var.data.v[last.pos + 1] = last.h
        /\ var.externalData.v[last.pos + 1].h = last.h
        /\ \A g \in 1..Len(handles) :
             g \notin {OldRef, last.h, ConnH} => handles[g] = last.pre.handles[g]

\* a slot that referenced one of the caller's large objects was set to the
\* caller's other large object
C8_Witness ==
    /\ SetDone
    /\ last.native = "LOB"
    /\ OldRef \in 1..Len(CallerHandles)
    /\ last.h \in 1..Len(CallerHandles)
    /\ last.h # OldRef

\* the references, the native-facing entries and the handles are as before
\* the write
ReferencesKept ==
    /\ handles = last.pre.handles
    /\ var.references = last.pre.var.references
    /\ var.data = last.pre.var.data

\* C9 as claimed: writing the handle the slot already references changes
\* nothing: not the handle's count, the tracked reference, the native-facing
\* entry or the external cell
C9_Original ==
    (SetDone /\ last.h = OldRef) =>
        /\ ReferencesKept
        /\ var.externalData = last.pre.var.externalData

\* C9 amended: writing the handle the slot already references leaves the
\* handle's count, the tracked reference, the native-facing entry and the
\* handle of the external cell unchanged, and marks the cell not null
C9_SameHandleKeepsReference ==
    (SetDone /\ last.h = OldRef) =>
        /\ ReferencesKept
        /\ var.externalData =
             [last.pre.var.externalData EXCEPT
                 !.v[last.pos + 1].isNull = FALSE]

\* a slot that was null got the handle it already referenced
C9_Witness ==
    /\ SetDone
    /\ last.h = OldRef
    /\ last.pre.var.externalData.v[last.pos + 1].isNull
    /\ ~var.externalData.v[last.pos + 1].isNull

\* pre-fetch ran on a cursor, large-object or row-id variable
PreFetched ==
    /\ last.op = "preFetch"
    /\ var.type \in LobTypes \cup {"STMT", "ROWID"}

\* the slots of refs that reference handle h
SlotsOf(refs, h) == { i \in 1..Len(refs) : refs[i] = h }

\* the handles of hs that hold a reference on the connection
Children(hs) ==
    { h \in 1..Len(hs) : hs[h].kind \in {"LOB", "STMT", "ROWID", "OBJECT"}
                         /\ hs[h].refCount > 0 }

\* C10: pre-fetch releases the reference a slot holds exactly once and leaves
\* the slot with exactly one reference on a fresh handle, whether it is the
\* first pre-fetch or a repeated one and whether it succeeds or returns early:
\* the count of every handle changed by the number of slots that reference
\* it now less the number that did before, a fresh handle's count is the
\* number of slots that reference it (at most one), the connection's count
\* follows the handles alive, and after success every slot references and
\* publishes a fresh handle of count one
C10_PreFetchKeepsOneReferencePerSlot ==
    PreFetched =>
        LET old   == last.pre.handles
            refs0 == last.pre.var.references.v
            refs1 == var.references.v
        IN  /\ \A h \in 1..Len(old) :
                 h # ConnH =>
                    handles[h].refCount =
                        old[h].refCount - Cardinality(SlotsOf(refs0, h))
                                        + Cardinality(SlotsOf(refs1, h))
            /\ \A h \in (Len(old) + 1)..Len(handles) :
                 /\ handles[h].refCount = Cardinality(SlotsOf(refs1, h))
                 /\ handles[h].refCount <= 1
            /\ handles[ConnH].refCount =
                 old[ConnH].refCount - Cardinality(Children(old))
                                     + Cardinality(Children(handles))
            /\ last.err = "" =>
                 \A i \in 1..var.maxArraySize :
                    /\ refs1[i] > Len(old)
                    /\ handles[refs1[i]].refCount = 1
                    /\ var.data.v[i] = refs1[i]
                    /\ var.externalData.v[i].h = refs1[i]

\* pre-fetch of a large-object variable of two slots, each holding a
\* reference, returned early at the second slot: the first slot has a fresh
\* handle, the second slot's reference was released and nothing replaced it
C10_Witness ==
    /\ PreFetched
    /\ last.err = "lob allocate"
    /\ var.maxArraySize = 2
    /\ last.pre.var.references.v[1] \in 1..Len(CallerHandles)
    /\ last.pre.var.references.v[2] # 0
    /\ var.references.v[1] > Len(last.pre.handles)
    /\ var.references.v[2] = 0

-----------------------------------------------------------------------------
(* Properties of the writes of bytes *)

\* dpiVar_setFromBytes was called on a slot of a variable of bytes that is
\* not dynamic and has no dynamic byte sets
FixedWrite ==
    /\ last.op = "setFromBytes"
    /\ last.pos < last.pre.var.maxArraySize
    /\ last.pre.var.nativeTypeNum = "BYTES"
    /\ ~last.pre.var.isDynamic
    /\ last.pre.var.dynamicBytes.id = 0

\* the call failed with the error given and changed nothing: not the stored
\* bytes, the actual lengths, the return codes, the indicators or the cells
RejectedWith(e) ==
    /\ last.err = e
    /\ var = last.pre.var
    /\ heap = last.pre.heap
    /\ handles = last.pre.handles

\* C11 as claimed: a value longer than the element size of a fixed variable
\* of bytes is rejected with BufferSizeTooSmall and the slot is unchanged
C11_Original ==
    (FixedWrite /\ Len(last.value) > last.pre.var.sizeInBytes) =>
        RejectedWith("BUFFER_SIZE_TOO_SMALL")

\* the longest value a slot of the fixed variable v takes: the element size,
\* or the width of the text form when the variable has a scratch buffer
Capacity(v) ==
    IF v.tempBuffer.id = 0 THEN v.sizeInBytes
    ELSE IF env.utf16 THEN DPI_NUMBER_AS_TEXT_CHARS * 2
    ELSE DPI_NUMBER_AS_TEXT_CHARS

\* C11 amended: a fixed variable of bytes rejects with BufferSizeTooSmall,
\* leaving the slot unchanged, exactly the values longer than its element
\* size when it has no scratch buffer, and exactly the values longer than the
\* text form of a number (twice that in UTF-16) when it has one
C11_TooLongRejectedUnchanged ==
    FixedWrite =>
        IF Len(last.value) > Capacity(last.pre.var)
        THEN RejectedWith("BUFFER_SIZE_TOO_SMALL")
        ELSE last.err # "BUFFER_SIZE_TOO_SMALL"

\* a slot that held a value of three bytes was offered a longer one
C11_Witness ==
    /\ FixedWrite
    /\ last.pre.var.tempBuffer.id = 0
    /\ last.pre.var.data.v[last.pos + 1] = Bytes(3)
    /\ ~last.pre.var.externalData.v[last.pos + 1].isNull
    /\ Len(last.value) > last.pre.var.sizeInBytes
    /\ last.err = "BUFFER_SIZE_TOO_SMALL"

\* dpiVar__getValue succeeded on the slot of a dynamic variable that the
\* write of bytes before it was made to
ReadBack ==
    /\ last.op = "getValue" /\ last.err = ""
    /\ last.wrote.pos = last.pos
    /\ last.pre.var.isDynamic

\* the external cell of the slot the last call was about
Cell == var.externalData.v[last.pos + 1]

\* the cell is not null and exposes exactly the bytes of value
Exposes(value) ==
    /\ ~Cell.isNull
    /\ Cell.length = Len(value)
    /\ Pad(BytesAt(State, Cell.ptr), Cell.length) = value

\* C12 as claimed: dpiVar_setFromBytes followed by dpiVar__getValue yields a
\* cell that is not null and holds the value written, whatever its length
C12_Original == ReadBack => Exposes(last.wrote.value)

\* C12 amended: the value written is read back, byte for byte and whatever
\* its length, when the slot's indicator says not null, as it does once
\* dpiVar__setValue has transferred the cell; with the indicator still null,
\* as after allocation, dpiVar__getValue sets the cell to null
C12_RoundTripWhenTransferred ==
    ReadBack =>
        /\ IF last.pre.var.indicator.v[last.pos + 1] # OCI_IND_NULL
           THEN Exposes(last.wrote.value)
           ELSE Cell.isNull
        /\ last.wrote.bound =>
              last.pre.var.indicator.v[last.pos + 1] # OCI_IND_NULL

\* a value of several quanta was written, transferred and read back
C12_Witness ==
    /\ ReadBack
    /\ last.wrote.bound
    /\ last.wrote.value = Bytes(2 * DPI_DYNAMIC_BYTES_CHUNK_SIZE + 1)
    /\ Exposes(last.wrote.value)

-----------------------------------------------------------------------------
(* Properties of the consolidation of chunks *)

\* dpiVar__getValue succeeded on a slot of a dynamic variable that was not
\* null and held k chunks
ReadChunks(k) ==
    /\ last.op = "getValue" /\ last.err = ""
    /\ last.pre.var.isDynamic
    /\ last.pre.var.indicator.v[last.pos + 1] # OCI_IND_NULL
    /\ last.pre.var.dynamicBytes.v[last.pos + 1].numChunks = k

\* the chunks of the slot before and after the call
ChunksBefore == last.pre.var.dynamicBytes.v[last.pos + 1].chunks
ChunksAfter == var.dynamicBytes.v[last.pos + 1].chunks

\* the valid bytes of the first k chunks, one chunk after the other
RECURSIVE Joined(_, _)
Joined(chunks, k) ==
    IF k = 0 THEN << >>
    ELSE Joined(chunks, k - 1) \o SubSeq(chunks[k].bytes, 1, chunks[k].length)

\* the sum of the valid lengths of the first k chunks
RECURSIVE SumOfLengths(_, _)
SumOfLengths(chunks, k) ==
    IF k = 0 THEN 0 ELSE SumOfLengths(chunks, k - 1) + chunks[k].length

\* the external cell points at the first chunk of the slot and has its length
CellAtFirstChunk ==
    /\ Cell.ptr = [blk |-> ChunksAfter[1].ptr, off |-> 0]
    /\ Cell.length = ChunksAfter[1].length

\* C13: reading a slot that holds k > 1 chunks leaves exactly one chunk,
\* whose valid length is the sum of the k valid lengths and whose bytes are
\* the k chunks' valid bytes in chunk order; each of the k buffers was live,
\* is freed, and nothing is freed twice; the new buffer is the only block
\* added; and the external cell points at the new chunk
C13_ConsolidationJoinsAndFrees ==
    \A k \in 2..(MaxPieces + 1) :
        ReadChunks(k) =>
            LET old == { ChunksBefore[j].ptr : j \in 1..k }
            IN  /\ var.dynamicBytes.v[last.pos + 1].numChunks = 1
                /\ ChunksAfter[1].length = SumOfLengths(ChunksBefore, k)
                /\ SubSeq(ChunksAfter[1].bytes, 1, ChunksAfter[1].length) =
                       Joined(ChunksBefore, k)
                /\ Cardinality(old) = k
                /\ old \subseteq last.pre.heap
                /\ old \cap heap = {}
                /\ oci.badFree = 0
                /\ heap = (last.pre.heap \ old) \cup {ChunksAfter[1].ptr}
                /\ ChunksAfter[1].ptr \notin last.pre.heap
                /\ \A j \in 2..k : ChunksAfter[j] = EmptyChunk
                /\ CellAtFirstChunk
                /\ ~Cell.isNull

\* three chunks, the first one short and the second one full, were joined
C13_Witness ==
    /\ ReadChunks(3)
    /\ ChunksBefore[1].length = 1
    /\ ChunksBefore[2].length = DPI_DYNAMIC_BYTES_CHUNK_SIZE
    /\ ChunksBefore[3].length = 1
    /\ ChunksAfter[1].length = DPI_DYNAMIC_BYTES_CHUNK_SIZE + 2

\* C14: reading a slot that holds exactly one chunk allocates nothing, frees
\* nothing and changes no chunk; it exposes that chunk's pointer and length;
\* and a slot whose cell already exposes the chunk is left entirely as it
\* was, so that two reads in a row give the same pointer and bytes
C14_SingleChunkReadIsIdempotent ==
    ReadChunks(1) =>
        /\ heap = last.pre.heap
        /\ nextId = last.pre.nextId
        /\ oci.badFree = 0
        /\ var.dynamicBytes = last.pre.var.dynamicBytes
        /\ CellAtFirstChunk
        /\ ~Cell.isNull
        /\ (/\ ~last.pre.var.externalData.v[last.pos + 1].isNull
            /\ last.pre.var.externalData.v[last.pos + 1].ptr.blk =
                  ChunksBefore[1].ptr
            /\ last.pre.var.externalData.v[last.pos + 1].length =
                  ChunksBefore[1].length)
           => var = last.pre.var

\* a slot whose two chunks an earlier read had joined was read again
C14_Witness ==
    /\ ReadChunks(1)
    /\ ops = 2
    /\ ChunksBefore[1].length = DPI_DYNAMIC_BYTES_CHUNK_SIZE + 1
    /\ ~last.pre.var.externalData.v[last.pos + 1].isNull
    /\ last.pre.var.externalData.v[last.pos + 1].ptr.blk = ChunksBefore[1].ptr
    /\ var = last.pre.var

-----------------------------------------------------------------------------
(* Properties of dpiVar_resize *)

\* dpiVar_resize succeeded on a variable of bytes that is not dynamic
ResizedFixed ==
    /\ last.op = "resize" /\ last.err = ""
    /\ last.pre.var.nativeTypeNum = "BYTES"
    /\ last.pre.var.dynamicBytes.id = 0

\* slot i holds no bytes: neither its element of the value array nor, for a
\* number transferred as text, its part of the scratch buffer
HoldsNoData(i) ==
    IF var.tempBuffer.id # 0
    THEN var.data.v[i] = UNINIT /\ var.tempBuffer.v[i] = << >>
    ELSE var.data.v[i] = << >>

\* C15: after a successful dpiVar_resize of a fixed variable of bytes the
\* element size is the new size, no data is kept and every slot is null:
\* indicator null, external cell null, actual length at the new element
\* size, as after a fresh allocation with that size
C15_ResizedAsFresh ==
    ResizedFixed =>
        /\ var.sizeInBytes = last.size
        /\ \A i \in 1..var.maxArraySize :
              /\ HoldsNoData(i)
              /\ var.indicator.v[i] = OCI_IND_NULL
              /\ var.externalData.v[i].isNull
              /\ var.actualLength.v[i] = last.size

\* nothing of the variable, of the heap or of the handles changed in the call
NothingChanged ==
    /\ var = last.pre.var
    /\ heap = last.pre.heap
    /\ nextId = last.pre.nextId
    /\ handles = last.pre.handles

\* C16: dpiVar_resize on a dynamic variable returns success and changes
\* nothing; on a variable whose native kind is not bytes it fails with
\* NotSupported and changes nothing
C16_ResizeLeavesDynamicAndNonBytes ==
    last.op = "resize" =>
        /\ last.pre.var.nativeTypeNum = "BYTES" /\ last.pre.var.isDynamic
              => last.err = "" /\ NothingChanged
        /\ last.pre.var.nativeTypeNum # "BYTES"
              => last.err = "NOT_SUPPORTED" /\ NothingChanged

\* a dynamic variable that holds a value in two chunks was resized to two bytes
C16_Witness ==
    /\ last.op = "resize" /\ last.err = ""
    /\ last.size = 2
    /\ last.pre.var.isDynamic
    /\ \E i \in 1..var.maxArraySize : var.dynamicBytes.v[i].numChunks >= 1
    /\ NothingChanged

-----------------------------------------------------------------------------
(* Properties of the number of elements in the array *)

\* C17: dpiVar_setNumElementsInArray(count) fails with ArraySizeExceeded when
\* count is above the capacity and leaves the stored count (and the rest of
\* the variable) as it was; otherwise it succeeds, stores count, and the next
\* dpiVar_getNumElementsInArray returns count
C17_NumElementsCheckedAndReadBack ==
    /\ last.op = "setNumElements" =>
          IF last.count > last.pre.var.maxArraySize
          THEN last.err = "ARRAY_SIZE_EXCEEDED" /\ NothingChanged
          ELSE /\ last.err = ""
               /\ var = [last.pre.var EXCEPT !.actualArraySize = last.count]
    /\ (last.op = "getNumElements" /\ last.after.op = "setNumElements") =>
          /\ last.err = ""
          /\ last.after.err = "" => last.out = last.after.count

\* the count was set to the capacity, two, and read back
C17_Witness ==
    /\ last.op = "getNumElements" /\ last.after.op = "setNumElements"
    /\ last.after.err = ""
    /\ last.after.count = 2 /\ var.maxArraySize = 2
    /\ last.out = 2

-----------------------------------------------------------------------------
(* Properties of the validation of the native type *)

\* the pairs of type and native type, other than a type's default, that the
\* statement allows
Whitelist ==
    ({"TIMESTAMP", "TIMESTAMP_TZ", "TIMESTAMP_LTZ"} \X {"DOUBLE"})
    \cup ({"NATIVE_INT"} \X {"UINT64"})
    \cup ({"NUMBER"} \X {"INT64", "UINT64", "BYTES"})

\* dpiVar__allocate was called for a type the catalog knows with a native
\* type that is not the type's default
AllocatedWithOtherNative ==
    /\ last.op = "allocate"
    /\ last.args.oracleTypeNum \in OracleTypeNums
    /\ last.args.nativeTypeNum #
          dpiOracleType__getFromNum(last.args.oracleTypeNum).defaultNativeTypeNum

\* the pair is not on the whitelist
Unlisted ==
    <<last.args.oracleTypeNum, last.args.nativeTypeNum>> \notin Whitelist

\* no variable or buffer was allocated and no reference count changed
NothingAllocated ==
    /\ last.out = 0 /\ ~var.alive
    /\ nextId = 1 /\ heap = {}
    /\ handles = CallerHandles

\* C18 as claimed: a pair that is not on the whitelist fails with
\* UnhandledConversion
C18_Original ==
    (AllocatedWithOtherNative /\ Unlisted) =>
        last.err = "UNHANDLED_CONVERSION" /\ NothingAllocated

\* C18 amended: with a native type that is not the type's default
\* dpiVar__allocate succeeds only for the pairs of the whitelist; any other
\* pair fails before anything is allocated and before any reference count
\* changes, with UnhandledConversion unless the capacity is 0
\* (ArraySizeZero) or an array is asked of a type that cannot be in one
\* (NotSupported), which are checked first
C18_UnlistedPairFailsEarly ==
    (AllocatedWithOtherNative /\ Unlisted) =>
        /\ last.err =
              IF last.args.maxArraySize = 0 THEN "ARRAY_SIZE_ZERO"
              ELSE IF /\ last.args.isArray
                      /\ ~dpiOracleType__getFromNum(
                             last.args.oracleTypeNum).canBeInArray
              THEN "NOT_SUPPORTED"
              ELSE "UNHANDLED_CONVERSION"
        /\ NothingAllocated

\* a date asked for as a double, with capacity 1 and not as an array
C18_Witness ==
    /\ AllocatedWithOtherNative /\ Unlisted
    /\ last.args.oracleTypeNum = "DATE"
    /\ last.args.nativeTypeNum = "DOUBLE"
    /\ last.args.maxArraySize = 1
    /\ ~last.args.isArray
    /\ last.err = "UNHANDLED_CONVERSION"
    /\ NothingAllocated

-----------------------------------------------------------------------------
(* Properties of the return codes *)

\* the slot read was null before the read: its indicator, or for an object
\* the indicator of its instance, says null
WasNull == SlotIsNull(last.pre, last.pos)

\* the variable tracks a return code per slot
TracksCodes == last.pre.var.returnCode.id # 0

\* the return code of the slot read
CodeOfSlot == last.pre.var.returnCode.v[last.pos + 1]

\* C19: dpiVar__getValue fails with ColumnFetchError, carrying the position
\* and the native code, if and only if the slot is not null, the variable
\* tracks return codes and the slot's code is not zero; a null slot gives a
\* null external cell and success whatever its return code is
C19_ColumnFetchErrorIffCode ==
    last.op = "getValue" =>
        /\ last.err = "COLUMN_FETCH"
              <=> (~WasNull /\ TracksCodes /\ CodeOfSlot # 0)
        /\ last.err = "COLUMN_FETCH"
              => last.out = [pos |-> last.pos, code |-> CodeOfSlot]
        /\ WasNull => last.err = "" /\ Cell.isNull

\* the second slot, not null and with the code of a truncated value, was read
C19_Witness ==
    /\ last.op = "getValue" /\ last.pos = 1
    /\ ~WasNull /\ TracksCodes /\ CodeOfSlot = 1406
    /\ last.err = "COLUMN_FETCH"
    /\ last.out = [pos |-> 1, code |-> 1406]

-----------------------------------------------------------------------------
(* Properties of the position checks of the public writes *)

\* a public write of a slot was called with a position at or past the
\* capacity of the variable written
WrotePastEnd ==
    /\ last.op \in {"setFrom", "setFromBytes", "copyData"}
    /\ last.pos >= last.pre.var.maxArraySize

\* dpiVar_copyData was called with a position in the target and a position
\* at or past the capacity of the source variable
CopiedFromPastEnd ==
    /\ last.op = "copyData"
    /\ last.pos < last.pre.var.maxArraySize
    /\ last.sourceAlive
    /\ last.sourcePos >= last.sourceCap

\* C20: every public write of a slot (dpiVar_setFromBytes, dpiVar_setFromLob,
\* dpiVar_setFromObject, dpiVar_setFromRowid, dpiVar_setFromStmt and
\* dpiVar_copyData, for the target and for the source position) called with
\* a position at or past the capacity fails with ArraySizeExceeded and
\* changes no slot, buffer or reference count
C20_PastEndWriteFailsUnchanged ==
    (WrotePastEnd \/ CopiedFromPastEnd) =>
        last.err = "ARRAY_SIZE_EXCEEDED" /\ NothingChanged

\* a copy into the first slot from the position past the last slot of a
\* source of capacity two
C20_Witness ==
    /\ CopiedFromPastEnd
    /\ last.pos = 0 /\ last.sourcePos = 2 /\ last.sourceCap = 2
    /\ last.err = "ARRAY_SIZE_EXCEEDED"
    /\ NothingChanged

-----------------------------------------------------------------------------
(* Properties of the bind callback for input data *)

\* the dynamic byte set of the slot the bind callback was asked about
BoundSlot == var.dynamicBytes.v[last.index + 1]

\* C21: on a dynamic variable dpiVar__inBindCallback supplies a null buffer
\* and length 0 for a slot that holds no value (chunk count 0: never written
\* or reset by pre-fetch), and for a slot that holds a value the pointer and
\* valid length of its chunk
C21_InBindSuppliesValueOrNothing ==
    (last.op = "inBind" /\ var.isDynamic) =>
        IF BoundSlot.numChunks = 0
        THEN last.out.bufp.blk = 0 /\ last.out.alen = 0
        ELSE /\ last.out.bufp.blk = BoundSlot.chunks[1].ptr
             /\ last.out.alen = BoundSlot.chunks[1].length

-----------------------------------------------------------------------------
(* Properties of the define callback *)

\* dpiVar__defineCallback succeeded
Defined == last.op = "define" /\ last.err = ""

\* the dynamic byte set of the slot of the call, after and before the call
DefinedSlot == var.dynamicBytes.v[last.iter + 1]
DefinedSlotBefore == last.pre.var.dynamicBytes.v[last.iter + 1]

\* C22: after a pre-fetch reset (or on a new variable) k calls of
\* dpiVar__defineCallback for a slot leave the slot with chunk count k; each
\* call hands out a live buffer of at least one quantum that is distinct
\* from the buffers handed out before; the chunk array grows by exactly 8
\* entries when it is exhausted and not otherwise; and every chunk entry
\* handed out before is kept (pointer, length, reserved length)
C22_DefineAccumulatesChunks ==
    Defined =>
        LET k == DefinedSlot.numChunks
        IN  /\ \A i \in 1..var.maxArraySize :
                  var.dynamicBytes.v[i].numChunks = last.calls[i]
            /\ k = DefinedSlotBefore.numChunks + 1
            /\ last.out.bufp.blk = DefinedSlot.chunks[k].ptr
            /\ DefinedSlot.chunks[k].ptr \in heap
            /\ DefinedSlot.chunks[k].allocatedLength
                  >= DPI_DYNAMIC_BYTES_CHUNK_SIZE
            /\ \A j \in 1..(k - 1) :
                  DefinedSlot.chunks[j].ptr # DefinedSlot.chunks[k].ptr
            /\ DefinedSlot.allocatedChunks =
                  IF DefinedSlotBefore.numChunks
                        = DefinedSlotBefore.allocatedChunks
                  THEN DefinedSlotBefore.allocatedChunks + 8
                  ELSE DefinedSlotBefore.allocatedChunks
            /\ \A j \in 1..(k - 1) :
                  DefinedSlot.chunks[j] = DefinedSlotBefore.chunks[j]

\* the ninth piece of a value, fetched into a slot that had been written and
\* reset, made the chunk array grow from 8 to 16 entries
C22_Witness ==
    /\ Defined
    /\ ops > 0
    /\ DefinedSlot.numChunks = 9
    /\ DefinedSlotBefore.allocatedChunks = 8
    /\ DefinedSlot.allocatedChunks = 16
    /\ DefinedSlot.chunks[1].allocatedLength > DPI_DYNAMIC_BYTES_CHUNK_SIZE

-----------------------------------------------------------------------------
(* Properties of the per-slot arrays *)

\* the per-slot arrays of the variable
PerSlotArrays ==
    { var.indicator, var.actualLength, var.returnCode, var.externalData,
      var.references, var.dynamicBytes, var.objectIndicator }

\* C23: in every reachable state each per-slot array the variable has
\* (indicators, actual lengths, return codes, external cells, references,
\* dynamic byte sets, object indicators) has exactly as many entries as the
\* capacity of the variable, also after late growth has changed the capacity
\* and after a reallocation that failed
C23_PerSlotArraysMatchCapacity ==
    \A a \in PerSlotArrays :
        a.id # 0 => a.size = var.maxArraySize /\ Len(a.v) = var.maxArraySize

\* a late growth to more rows failed after it had allocated the indicators
C23_Witness ==
    /\ last.op = "outBind" /\ last.err # ""
    /\ var.maxArraySize > exec.cap0
    /\ var.indicator.id # 0 /\ var.indicator.size = var.maxArraySize
    /\ var.externalData.id = 0

-----------------------------------------------------------------------------
(* Properties of dpiVar__allocateDynamicBytes *)

\* the dynamic byte set of the slot of the call, after and before the call
SizedSlot == var.dynamicBytes.v[last.pos + 1]
SizedSlotBefore == last.pre.var.dynamicBytes.v[last.pos + 1]

\* C24: after a successful dpiVar__allocateDynamicBytes, for every required
\* size of 32 bits, the reserved length of the first chunk is a multiple of
\* the quantum and at least the required size, and a chunk with a reserved
\* length has a live buffer
C24_FirstChunkHoldsRequiredSize ==
    (last.op = "allocateDynamicBytes" /\ last.err = "") =>
        /\ SizedSlot.chunks[1].allocatedLength
              % DPI_DYNAMIC_BYTES_CHUNK_SIZE = 0
        /\ SizedSlot.chunks[1].allocatedLength >= last.size
        /\ SizedSlot.chunks[1].allocatedLength > 0
              => SizedSlot.chunks[1].ptr \in heap

\* the call failed inside dpiVar__allocateDynamicBytes
AllocateDynamicBytesFailed ==
    last.err \in {"NO_MEMORY allocate chunks", "NO_MEMORY allocate chunk"}

\* a write of bytes to a dynamic slot that got as far as
\* dpiVar__allocateDynamicBytes
WroteDynamicSlot ==
    /\ last.op = "setFromBytes"
    /\ last.pre.var.dynamicBytes.id # 0 /\ last.pre.var.references.id = 0
    /\ last.err = "" \/ AllocateDynamicBytesFailed

\* a read of the large object of a slot into bytes that got as far as
\* dpiVar__allocateDynamicBytes
ReadLobIntoBytes ==
    /\ last.op = "getValue"
    /\ last.pre.var.type \in LobTypes /\ last.pre.var.nativeTypeNum = "BYTES"
    /\ ~SlotIsNull([var |-> last.pre.var], last.pos)
    /\ last.err \in {"", "read bytes"} \/ AllocateDynamicBytesFailed

\* C25: every caller of dpiVar__allocateDynamicBytes, the write of bytes
\* to a dynamic slot and the read of a large object into bytes, leaves the
\* chunk count of the slot at 1 when it succeeds, and the chunk count is 0
\* when dpiVar__allocateDynamicBytes fails
C25_OneChunkAfterAllocateDynamicBytes ==
    (WroteDynamicSlot \/ ReadLobIntoBytes) =>
        SizedSlot.numChunks =
            IF AllocateDynamicBytesFailed \/ last.err = "read bytes" THEN 0
            ELSE 1

\* the part of C25 about the writes of bytes
C25_WritesLeaveOneChunk ==
    WroteDynamicSlot =>
        SizedSlot.numChunks = IF AllocateDynamicBytesFailed THEN 0 ELSE 1

\* the part of C25 about failures
C25_FailuresLeaveNoChunk ==
    ((WroteDynamicSlot \/ ReadLobIntoBytes) /\ AllocateDynamicBytesFailed)
        => SizedSlot.numChunks = 0

\* every chunk entry of every slot of a variable
ChunkEntries(v) ==
    UNION { { v.dynamicBytes.v[i].chunks[j] :
                j \in 1..Len(v.dynamicBytes.v[i].chunks) } :
            i \in 1..Len(v.dynamicBytes.v) }

\* C26: in every state, the valid length of every chunk of every dynamic
\* slot is at most the reserved length of the chunk
C26_LengthWithinReservedLength ==
    \A c \in ChunkEntries(var) : c.length <= c.allocatedLength

-----------------------------------------------------------------------------
(* Properties of dpiVar__convertToLob *)

\* dpiVar__convertToLob succeeded
ConvertedNow == last.op = "convertToLob" /\ last.err = ""

\* the content of the large object of slot i
LobContent(i) == handles[var.references.v[i]].content

\* C27: after a successful dpiVar__convertToLob, the large object of every
\* slot that held chunks has the bytes of the slot's whole value, in order,
\* and the large object of a slot with no chunks has nothing written to it
C27_LobsHoldWholeValues ==
    ConvertedNow =>
        \A i \in 1..var.maxArraySize :
            LET d == last.pre.var.dynamicBytes.v[i]
            IN  LobContent(i) = Joined(d.chunks, d.numChunks)

\* the part of C27 about slots with at most one chunk
C27_LobsHoldSingleChunks ==
    ConvertedNow =>
        \A i \in 1..var.maxArraySize :
            LET d == last.pre.var.dynamicBytes.v[i]
            IN  d.numChunks <= 1 =>
                    LobContent(i) = Joined(d.chunks, d.numChunks)

\* the large-object type of the same character set form as a type of bytes
LobTypeOfSameForm(oracleTypeNum) ==
    IF oracleTypeNum \in {"RAW", "LONG_RAW"} THEN "BLOB"
    ELSE IF oracleTypeNum \in {"NCHAR", "NVARCHAR", "LONG_NVARCHAR"}
    THEN "NCLOB"
    ELSE "CLOB"

\* C28: dpiVar__convertToLob gives the variable the large-object type of the
\* character set form of its type: BLOB for RAW and LONG RAW, NCLOB for
\* NCHAR, NVARCHAR and LONG NVARCHAR, CLOB for every other type
C28_LobTypeKeepsCharsetForm ==
    ConvertedNow => var.type = LobTypeOfSameForm(last.pre.var.type)

\* the part of C28 about the types other than NVARCHAR
C28_LobTypeOfOtherTypes ==
    (ConvertedNow /\ last.pre.var.type # "NVARCHAR")
        => var.type = LobTypeOfSameForm(last.pre.var.type)

\* the variable was released right after dpiVar__convertToLob
ReleasedConverted == last.op = "free" /\ last.args.op = "convertToLob"

\* C29: dpiVar__convertToLob leaves the dynamic byte sets, their chunk arrays
\* and their chunks as they were, none of their blocks freed, and the release
\* of the converted variable frees each of these blocks once and leaves no
\* block behind
C29_ChunksKeptThenFreedOnce ==
    /\ last.op = "convertToLob" =>
          /\ var.dynamicBytes = last.pre.var.dynamicBytes
          /\ ChunkBlocks(last.pre.var) \cap last.pre.heap \subseteq heap
          /\ oci.badFree = 0
    /\ ReleasedConverted =>
          /\ last.args.chunks \cap heap = {}
          /\ heap = {}
          /\ oci.badFree = 0

\* a variable with a value in a chunk was converted and released
C29_Witness ==
    /\ ReleasedConverted /\ last.args.err = ""
    /\ Cardinality(last.args.chunks) >= 3

-----------------------------------------------------------------------------
(* Properties of the size of the value array *)

\* the element size of the variable asked for, and the length of its value
\* array
ElementSizeAsked ==
    SizeInBytes([env |-> env],
                dpiOracleType__getFromNum(last.args.oracleTypeNum), last.args)

DataLengthAsked == last.args.maxArraySize * ElementSizeAsked

\* dpiVar__allocate got as far as the value array of a fixed variable
SizedValueArray ==
    /\ last.op = "allocate"
    /\ last.args.oracleTypeNum \in OracleTypeNums
    /\ last.args.maxArraySize > 0
    /\ ElementSizeAsked <= DPI_MAX_BASIC_BUFFER_SIZE
    /\ last.err \notin { "NOT_SUPPORTED", "UNHANDLED_CONVERSION",
                         "NO_MEMORY allocate handle", "set ref count",
                         "INVALID_HANDLE" }

\* C30: dpiVar__allocate of a fixed variable fails with ArraySizeTooBig
\* exactly when capacity times element size, computed without wrapping at
\* the word, is above the largest signed integer, and a variable it returns
\* has a value array of capacity times element size bytes
C30_ArraySizeTooBigByFullProduct ==
    SizedValueArray =>
        /\ last.err = "ARRAY_SIZE_TOO_BIG" <=> DataLengthAsked > INT_MAX
        /\ last.err = "" =>
              /\ var.data.id \in heap
              /\ var.data.size = DataLengthAsked
              /\ Len(var.data.v) = last.args.maxArraySize

\* an allocation failed for a product that is small once wrapped at the word
C30_Witness ==
    /\ SizedValueArray
    /\ last.err = "ARRAY_SIZE_TOO_BIG"
    /\ DataLengthAsked > UINT32_MOD
    /\ DataLengthAsked % UINT32_MOD <= INT_MAX

\* the bytes the characters asked for can take: the count times the most
\* bytes a character takes in the character set of the type
BytesOfCharsAsked ==
    LET type == dpiOracleType__getFromNum(last.args.oracleTypeNum)
        count == IF last.args.size = 0 THEN 1 ELSE last.args.size
    IN  count * (IF type.charsetForm = "IMPLICIT"
                 THEN env.maxBytesPerCharacter
                 ELSE env.nmaxBytesPerCharacter)

\* dpiVar__allocate returned a variable of characters sized by a count
AllocatedChars ==
    /\ last.op = "allocate" /\ last.err = ""
    /\ ~last.args.sizeIsBytes
    /\ dpiOracleType__getFromNum(last.args.oracleTypeNum).isCharacterData
    /\ dpiOracleType__getFromNum(last.args.oracleTypeNum).sizeInBytes = 0

\* C31: a variable of characters sized by a count has the element size of
\* the count times the most bytes per character, for every count of the
\* word: it is dynamic exactly when that size is above the basic buffer,
\* whatever its capacity, and a fixed one has that element size
C31_ElementSizeIsCountTimesBytesPerChar ==
    AllocatedChars =>
        /\ var.isDynamic <=> BytesOfCharsAsked > DPI_MAX_BASIC_BUFFER_SIZE
        /\ ~var.isDynamic => var.sizeInBytes = BytesOfCharsAsked

\* the part of C31 about counts whose size in bytes fits the word
C31_ElementSizeWithinWord ==
    (AllocatedChars /\ BytesOfCharsAsked < UINT32_MOD) =>
        /\ var.isDynamic <=> BytesOfCharsAsked > DPI_MAX_BASIC_BUFFER_SIZE
        /\ ~var.isDynamic => var.sizeInBytes = BytesOfCharsAsked

-----------------------------------------------------------------------------
(* Properties of the chunk arrays *)

\* the chunk count of a dynamic byte set is within its chunk array
WithinChunkArray(d) ==
    /\ d.numChunks <= d.allocatedChunks
    /\ d.numChunks >= 1 => d.chunksId \in heap

\* C32: in every state, the chunk count of every slot of a dynamic variable
\* is at most the number of chunk entries reserved for it, and a slot with
\* a chunk count of 1 or more has a chunk array; so it is after
\* dpiVar__getValue on a slot that is not null and was never populated
C32_ChunkCountWithinChunkArray ==
    \A i \in 1..Len(var.dynamicBytes.v) : WithinChunkArray(var.dynamicBytes.v[i])

\* the part of C32 about the states the program goes on from
C32_ChunkCountWithinChunkArrayWhileRunning ==
    ~Crashed =>
        \A i \in 1..Len(var.dynamicBytes.v) :
            WithinChunkArray(var.dynamicBytes.v[i])

\* the buffers the chunk entries of slot i of a variable point at
ChunkBuffers(v, i) ==
    { v.dynamicBytes.v[i].chunks[j].ptr :
        j \in 1..Len(v.dynamicBytes.v[i].chunks) } \ {0}

\* the chunk entries of slot i that point at buffer b
EntriesAt(v, i, b) ==
    { j \in 1..Len(v.dynamicBytes.v[i].chunks) :
        v.dynamicBytes.v[i].chunks[j].ptr = b }

\* an operation on a dynamic variable that is still there
OperatedOnChunks ==
    /\ last.op \in {"preFetch", "define", "setFromBytes", "getValue"}
    /\ var.alive /\ var.dynamicBytes.id # 0
    /\ last.pre.var.dynamicBytes.id # 0

\* C33: over pre-fetch resets, define callbacks, writes of bytes and reads
\* of a dynamic variable, a chunk buffer that is not freed stays the buffer
\* of a chunk entry of its slot, and no buffer is the buffer of two entries
C33_ChunkBuffersStayReferenced ==
    OperatedOnChunks =>
        \A i \in 1..var.maxArraySize :
            /\ ChunkBuffers(last.pre.var, i) \cap heap
                  \subseteq ChunkBuffers(var, i)
            /\ \A b \in ChunkBuffers(var, i) :
                  Cardinality(EntriesAt(var, i, b)) = 1

\* the part of C33 about every operation but the read of a slot whose chunk
\* count is 0
C33_ChunkBuffersStayReferencedElsewhere ==
    (/\ OperatedOnChunks
     /\ ~(/\ last.op = "getValue"
          /\ last.pre.var.dynamicBytes.v[last.pos + 1].numChunks = 0)) =>
        \A i \in 1..var.maxArraySize :
            /\ ChunkBuffers(last.pre.var, i) \cap heap
                  \subseteq ChunkBuffers(var, i)
            /\ \A b \in ChunkBuffers(var, i) :
                  Cardinality(EntriesAt(var, i, b)) = 1

-----------------------------------------------------------------------------
(* Properties of the number of elements *)

\* C34: in every state the number of elements stored is at most the
\* capacity of the variable, and so is the number dpiVar_getNumElementsInArray
\* returns, after calls of dpiVar_setNumElementsInArray that succeeded or
\* failed and after the variable grew during an execute
C34_NumElementsWithinCapacity ==
    var.alive =>
        /\ var.actualArraySize <= var.maxArraySize
        /\ last.op = "getNumElements" => last.out <= var.maxArraySize

\* the variable grew during an execute and was then filled to its capacity
C34_Witness ==
    /\ last.op = "setNumElements" /\ last.err = ""
    /\ var.maxArraySize > MaxCap
    /\ var.actualArraySize = var.maxArraySize

-----------------------------------------------------------------------------
(* Properties of fixed variables of bytes over dpiVar_resize *)

\* a live variable of a type of bytes with a value array of fixed elements
FixedBytesVar ==
    /\ var.alive
    /\ var.nativeTypeNum = "BYTES"
    /\ VarType(State).defaultNativeTypeNum = "BYTES"
    /\ var.dynamicBytes.id = 0
    /\ var.actualLength.id # 0

\* C35: in every state of a fixed variable of bytes, the actual length of
\* every slot is at most the element size of the variable, so that
\* dpiVar__getValue reports no length beyond the region of the slot
C35_ActualLengthWithinElementSize ==
    FixedBytesVar =>
        \A i \in 1..Len(var.actualLength.v) :
            var.actualLength.v[i] <= var.sizeInBytes

\* the actual lengths of a variable are within its element size
LengthsWithin(v) ==
    \A i \in 1..Len(v.actualLength.v) : v.actualLength.v[i] <= v.sizeInBytes

\* the part of C35 about every operation but a dpiVar_resize to a smaller
\* element size: a new variable has its actual lengths within the element
\* size, and the other operations keep them so
C35_OnlyShrinkingBreaksActualLength ==
    FixedBytesVar =>
        /\ last.op = "allocate" => LengthsWithin(var)
        /\ (/\ last.op \in {"setFromBytes", "resize", "outBind", "preFetch"}
            /\ LengthsWithin(last.pre.var)
            /\ ~(last.op = "resize" /\ last.size < last.pre.var.sizeInBytes))
              => LengthsWithin(var)

\* dpiVar_resize returned on a variable of a type of bytes with a value array
\* of fixed elements
ResizedFixedBytes ==
    /\ last.op = "resize"
    /\ var.nativeTypeNum = "BYTES"
    /\ var.dynamicBytes.id = 0 /\ var.tempBuffer.id = 0

\* the byte pointer of every cell is at the region of its slot in the value
\* array, or there is no value array and no cell points anywhere
CellsAtValueArray ==
    \A i \in 1..var.maxArraySize :
        var.externalData.v[i].ptr =
            IF var.data.id = 0 THEN NullPtr
            ELSE [blk |-> var.data.id, off |-> (i - 1) * var.sizeInBytes]

\* C36: after dpiVar_resize returns on a fixed variable of bytes, with
\* success or with an error, no cell points into the value array that was
\* freed: every cell points at the region of its slot in the value array
\* there is now, or there is none and no cell points anywhere
C36_NoCellPointsAtFreedArray ==
    ResizedFixedBytes =>
        /\ CellsAtValueArray
        /\ \A i \in 1..var.maxArraySize :
              var.externalData.v[i].ptr.blk \in heap \cup {0}

\* the part of C36 about the resizes that succeed
C36_CellsRewiredOnSuccess ==
    (ResizedFixedBytes /\ last.err = "") =>
        /\ CellsAtValueArray
        /\ \A i \in 1..var.maxArraySize :
              var.externalData.v[i].ptr.blk \in heap

-----------------------------------------------------------------------------
(* The handle a slot tracks, the one its cell shows and the one the native
   layer is given *)

\* the variable keeps a reference per slot on a handle the caller sees
TracksHandles ==
    /\ var.alive
    /\ var.references.id # 0
    /\ var.nativeTypeNum \in {"LOB", "STMT", "ROWID", "OBJECT"}

\* the native-facing entry of slot i is that of handle h: the handle's own
\* locator, statement or descriptor, or for an object made on a read
\* (lines 878-884) the instance the entry held, which is none here
EntryDesignates(i, h) ==
    \/ var.data.v[i] = h
    \/ /\ var.type = "OBJECT" /\ var.data.v[i] = NULLH
       /\ handles[h].ext = 0

SlotAgrees(i) ==
    var.references.v[i] # 0 =>
        /\ var.externalData.v[i].h = var.references.v[i]
        /\ EntryDesignates(i, var.references.v[i])

\* C37: in every state, a slot of a cursor, large-object, row-id or object
\* variable that tracks a reference shows that handle in its external cell
\* and gives that handle to the native layer
C37_TrackedHandleIsPublished ==
    TracksHandles => \A i \in 1..var.maxArraySize : SlotAgrees(i)

\* C37, the part that holds: a call that succeeds on a variable whose slots
\* agree leaves them agreeing, and so does the allocation that succeeds
C37_SuccessKeepsHandlesPublished ==
    [][(C37_TrackedHandleIsPublished /\ last'.err = "")
          => C37_TrackedHandleIsPublished']_vars

-----------------------------------------------------------------------------
(* Properties of a dpiVar_copyData that fails *)

\* dpiVar_copyData on a slot of the target returned an error
CopyFailed ==
    /\ last.op = "copyData"
    /\ last.err # ""
    /\ last.pos < last.pre.var.maxArraySize

\* slot pos of the variable is as it was before the call: its cell with its
\* null flag, and its entries in the arrays of the variable
SlotUnchanged(pos) ==
    /\ var.externalData.v[pos + 1] = last.pre.var.externalData.v[pos + 1]
    /\ var.data.v[pos + 1] = last.pre.var.data.v[pos + 1]
    /\ var.references = last.pre.var.references
    /\ var.actualLength = last.pre.var.actualLength
    /\ var.dynamicBytes = last.pre.var.dynamicBytes

\* C38: a dpiVar_copyData that fails leaves the target slot as it was,
\* the null flag of its external cell included
C38_FailedCopyLeavesSlot ==
    CopyFailed => SlotUnchanged(last.pos)

\* C38, the part that holds: a copy refused by the checks of dpiVar_copyData
\* itself (a source that is no variable, a source position past its end, a
\* source of another native type) changes nothing
C38_RefusedCopyLeavesSlot ==
    (CopyFailed /\ last.err \in {"INVALID_HANDLE", "ARRAY_SIZE_EXCEEDED",
                                  "NOT_SUPPORTED"}
                /\ ~(last.sourceAlive /\ last.sourcePos < last.sourceCap
                       /\ last.err = "INVALID_HANDLE"))
        => NothingChanged

-----------------------------------------------------------------------------
(* Properties of the release of native descriptors and handles at teardown *)

\* handle h had its native resource released at most once
ReleasedAtMostOnce(h) == handles[h].nfree <= 1

\* C39: teardown releases each native descriptor or handle of the variable at
\* most once: none is released both through the slot's tracked reference and
\* through the free of the descriptor array, and no descriptor array is
\* released twice
C39_ReleasedAtMostOnce ==
    /\ \A h \in 1..Len(handles) : ReleasedAtMostOnce(h)
    /\ oci.descArrays >= 0

\* C39, the part that holds: every handle that is not a row-id, and every
\* descriptor array, is released at most once
C39_OthersReleasedAtMostOnce ==
    /\ \A h \in 1..Len(handles) :
          handles[h].kind # "ROWID" => ReleasedAtMostOnce(h)
    /\ oci.descArrays >= 0

-----------------------------------------------------------------------------
(* Properties of the scratch buffer of numbers transferred as text *)

\* a variable of numbers transferred as text was allocated
AllocatedNumberAsText ==
    /\ last.op = "allocate" /\ last.err = ""
    /\ var.alive
    /\ var.type = "NUMBER" /\ var.nativeTypeNum = "BYTES"

\* the scratch buffer holds a region of the slot width for every slot, and
\* the byte pointer of slot i is at i times the width in it
ScratchLaidOut ==
    LET width == TempBufferSize(State)
    IN  /\ var.tempBuffer.id # 0
        /\ var.tempBuffer.size >= var.maxArraySize * width
        /\ \A i \in 1..var.maxArraySize :
              /\ var.externalData.v[i].ptr =
                    [blk |-> var.tempBuffer.id, off |-> (i - 1) * width]
              /\ var.externalData.v[i].ptr.off + width <= var.tempBuffer.size
        /\ \A i, j \in 1..var.maxArraySize :
              i < j => var.externalData.v[i].ptr.off + width
                          <= var.externalData.v[j].ptr.off

\* C40: for every capacity the allocation accepts, the scratch buffer of a
\* number variable transferred as text holds capacity times the slot width
\* bytes and the byte pointer of slot i is at i times the width inside it:
\* the regions of the slots do not overlap and end within the buffer
C40_ScratchRegionsDisjoint ==
    AllocatedNumberAsText => ScratchLaidOut

\* C40, the part that holds: the capacities whose scratch buffer fits the
\* word of 32 bits
C40_ScratchRegionsDisjointWithinWord ==
    (AllocatedNumberAsText
        /\ var.maxArraySize * TempBufferSize(State) < UINT32_MOD)
        => ScratchLaidOut
=============================================================================
